---- MODULE Spec2Model ----
(***************************************************************************)
(* Model of the gdextension binding generator's lowering core:             *)
(*   - type_mapping.py : TypeMapper (type classifier, map_method)          *)
(*   - models.py       : CppType, MethodInfo (signature_key, exposed_name) *)
(*   - clang_parser.py : _assign_overload_indices                          *)
(*   - utils.py        : camel_to_snake, sanitize_identifier               *)
(*                                                                         *)
(* Python str values are TLA+ strings; the str methods the code uses       *)
(* (strip, startswith, replace, split, find, comparison) are operators     *)
(* that work character by character, as the interpreter does.              *)
(***************************************************************************)
EXTENDS Integers, Sequences, FiniteSets, TLC

(***************************************************************************)
(* Python str primitives                                                   *)
(***************************************************************************)

\* Python's None for Optional[str] fields: a string no expression of the
\* generator produces.
None == "<None>"

\* Python's None for MethodInfo.overload_index (Optional[int]).
NoIndex == -1

Max2(a, b) == IF a >= b THEN a ELSE b

CharAt(s, i) == SubSeq(s, i, i)

DropFirst(s, n) == SubSeq(s, n + 1, Len(s))

\* str.startswith
StartsWith(s, p) == Len(p) <= Len(s) /\ SubSeq(s, 1, Len(p)) = p

\* str.endswith
EndsWith(s, p) == Len(p) <= Len(s) /\ SubSeq(s, Len(s) - Len(p) + 1, Len(s)) = p

\* `sub in s`
Contains(s, sub) ==
    \E i \in 1..(Len(s) - Len(sub) + 1) : SubSeq(s, i, i + Len(sub) - 1) = sub

\* str.find, 1-based; 0 when absent (Python: 0-based, -1 when absent)
Find(s, sub) ==
    LET hits == { i \in 1..(Len(s) - Len(sub) + 1) : SubSeq(s, i, i + Len(sub) - 1) = sub }
    IN  IF hits = {} THEN 0 ELSE CHOOSE i \in hits : \A j \in hits : i <= j

\* str.replace(old, new): every non-overlapping occurrence, left to right
RECURSIVE Replace(_, _, _)
Replace(s, old, new) ==
    IF Len(s) < Len(old) THEN s
    ELSE IF StartsWith(s, old)
         THEN new \o Replace(DropFirst(s, Len(old)), old, new)
         ELSE CharAt(s, 1) \o Replace(DropFirst(s, 1), old, new)

\* str.lstrip / str.rstrip / str.strip (type spellings hold no whitespace
\* other than the space)
RECURSIVE LStrip(_)
LStrip(s) == IF Len(s) > 0 /\ CharAt(s, 1) = " " THEN LStrip(DropFirst(s, 1)) ELSE s

RECURSIVE RStrip(_)
RStrip(s) ==
    IF Len(s) > 0 /\ CharAt(s, Len(s)) = " " THEN RStrip(SubSeq(s, 1, Len(s) - 1)) ELSE s

Strip(s) == RStrip(LStrip(s))

\* the loop `while "  " in s: s = s.replace("  ", " ")`
RECURSIVE CollapseSpaces(_)
CollapseSpaces(s) ==
    IF Contains(s, "  ") THEN CollapseSpaces(Replace(s, "  ", " ")) ELSE s

\* str.split() with no argument: the maximal runs of non-space characters
RECURSIVE SplitFrom(_, _)
SplitFrom(s, cur) ==
    IF Len(s) = 0 THEN (IF cur = "" THEN <<>> ELSE <<cur>>)
    ELSE IF CharAt(s, 1) = " "
         THEN (IF cur = "" THEN <<>> ELSE <<cur>>) \o SplitFrom(DropFirst(s, 1), "")
         ELSE SplitFrom(DropFirst(s, 1), cur \o CharAt(s, 1))

Split(s) == SplitFrom(s, "")

\* sep.join(parts)
RECURSIVE Join(_, _)
Join(sep, parts) ==
    IF Len(parts) = 0 THEN ""
    ELSE IF Len(parts) = 1 THEN parts[1]
    ELSE parts[1] \o sep \o Join(sep, Tail(parts))

\* "".join(parts)
Concat(parts) == Join("", parts)

\* the filter [tok for tok in toks if tok not in drop]
RECURSIVE FilterOut(_, _)
FilterOut(toks, drop) ==
    IF Len(toks) = 0 THEN <<>>
    ELSE (IF toks[1] \in drop THEN <<>> ELSE <<toks[1]>>) \o FilterOut(Tail(toks), drop)

SeqHas(toks, x) == \E i \in 1..Len(toks) : toks[i] = x

\* Code points of the characters that occur in identifiers and type
\* spellings, in ascending order (Python compares str by code point).
CodePoints ==
    " !#%&()*+,-./0123456789:;<=>?ABCDEFGHIJKLMNOPQRSTUVWXYZ[]^_abcdefghijklmnopqrstuvwxyz{|}~"

Ord(c) == Find(CodePoints, c)

\* str.isupper / str.islower / str.isalpha / str.lower on one character
UpperToLower ==
    [ A |-> "a", B |-> "b", C |-> "c", D |-> "d", E |-> "e", F |-> "f", G |-> "g",
      H |-> "h", I |-> "i", J |-> "j", K |-> "k", L |-> "l", M |-> "m", N |-> "n",
      O |-> "o", P |-> "p", Q |-> "q", R |-> "r", S |-> "s", T |-> "t", U |-> "u",
      V |-> "v", W |-> "w", X |-> "x", Y |-> "y", Z |-> "z" ]
IsUpperCh(c) == c \in DOMAIN UpperToLower
LowerChars == { UpperToLower[u] : u \in DOMAIN UpperToLower }
IsLowerCh(c) == c \in LowerChars
IsAlphaCh(c) == IsUpperCh(c) \/ IsLowerCh(c)
LowerCh(c) == IF IsUpperCh(c) THEN UpperToLower[c] ELSE c

\* str.lower
RECURSIVE LowerStr(_)
LowerStr(s) == IF Len(s) = 0 THEN "" ELSE LowerCh(CharAt(s, 1)) \o LowerStr(DropFirst(s, 1))

\* Python's `a < b` on str: lexicographic by code point, a proper prefix first
StrLess(a, b) ==
    LET n == IF Len(a) <= Len(b) THEN Len(a) ELSE Len(b)
        diffs == { i \in 1..n : CharAt(a, i) # CharAt(b, i) }
    IN  IF diffs = {} THEN Len(a) < Len(b)
        ELSE LET k == CHOOSE i \in diffs : \A j \in diffs : i <= j
             IN  Ord(CharAt(a, k)) < Ord(CharAt(b, k))

\* str(n) for a natural number
RECURSIVE IntToStr(_)
IntToStr(n) ==
    IF n < 10 THEN CharAt("0123456789", n + 1)
    ELSE IntToStr(n \div 10) \o CharAt("0123456789", (n % 10) + 1)

(***************************************************************************)
(* type_mapping.py : helpers                                               *)
(***************************************************************************)

\* one pass of the loop `for kw in (...): if s.startswith(kw): s = s[len(kw):].lstrip()`
StripKw(s, kw) == IF StartsWith(s, kw) THEN LStrip(DropFirst(s, Len(kw))) ELSE s

_strip_cv_and_class_kw(spelling) ==
    LET s0 == Strip(spelling)
        s1 == StripKw(StripKw(StripKw(StripKw(s0, "const "), "class "), "struct "), "enum ")
        s2 == Replace(Replace(s1, " &", "&"), "& ", "&")
        s3 == Replace(Replace(s2, " *", "*"), "* ", "*")
    IN  CollapseSpaces(s3)

_base_identifier(spelling) ==
    LET s0 == _strip_cv_and_class_kw(spelling)
        s1 == Strip(Replace(Replace(s0, "&", ""), "*", " "))
        tokens == FilterOut(Split(s1), {"const", "volatile"})
        s2 == Strip(Join(" ", tokens))
    IN  CollapseSpaces(s2)

_absolute_qualified_name(qualified) ==
    IF qualified = "" THEN qualified
    ELSE IF StartsWith(qualified, "::") THEN qualified ELSE "::" \o qualified

IntegralNames ==
    { "bool", "char", "signed char", "unsigned char", "short", "short int",
      "unsigned short", "unsigned short int", "int", "unsigned", "unsigned int",
      "long", "long int", "unsigned long", "unsigned long int", "long long",
      "long long int", "unsigned long long", "unsigned long long int",
      "size_t", "ptrdiff_t", "intptr_t", "uintptr_t", "int8_t", "uint8_t",
      "int16_t", "uint16_t", "int32_t", "uint32_t", "int64_t", "uint64_t" }

FloatingNames == { "float", "double", "long double" }

_is_integral(t) == _strip_cv_and_class_kw(t) \in IntegralNames

_is_floating(t) == _strip_cv_and_class_kw(t) \in FloatingNames

_normalize_spaces(s) ==
    LET s1 == Replace(Replace(s, " &", "&"), "& ", "&")
        s2 == Replace(Replace(s1, " *", "*"), "* ", "*")
    IN  Strip(CollapseSpaces(s2))

_pointer_left_part(sp) ==
    LET idx == Find(sp, "*") IN IF idx = 0 THEN sp ELSE SubSeq(sp, 1, idx - 1)

\* _is_c_char_ptr narrowed to spellings that carry a const token
_is_c_char_ptr_with_const(t) ==
    t.is_pointer /\ _base_identifier(t.spelling) = "char" /\ Contains(t.spelling, "const")

_is_c_char_ptr(t) == t.is_pointer /\ _base_identifier(t.spelling) = "char"

_is_c_char_ptr_const(t) ==
    IF ~_is_c_char_ptr(t) THEN FALSE
    ELSE LET s == _normalize_spaces(_strip_cv_and_class_kw(t.spelling))
             left == _pointer_left_part(s)
             toks == Split(left)
         IN  SeqHas(toks, "const")

_is_std_string(spelling) ==
    LET s == _strip_cv_and_class_kw(spelling)
    IN  \/ s = "std::string"
        \/ StartsWith(s, "std::__cxx11::basic_string<char")
        \/ StartsWith(s, "std::basic_string<char")

_is_primitive_base_type(name) ==
    LET n == _strip_cv_and_class_kw(name)
    IN  _is_integral(n) \/ _is_floating(n) \/ n \in {"bool", "char", "wchar_t"}

_is_pointer_to_primitive(t) ==
    t.is_pointer /\ _is_primitive_base_type(_base_identifier(t.spelling))

\* re.sub(r"\s+", "", s)
RemoveSpaces(s) == Replace(s, " ", "")

\* The text matched by the group ([^>]+) when "handle<" starts at position q
\* of ss: the characters up to the next ">", or None when there is no ">"
\* or nothing before it.
HandleInnerAt(ss, q) ==
    LET rest == DropFirst(ss, q + 6)
        close == Find(rest, ">")
    IN  IF close <= 1 THEN None ELSE SubSeq(rest, 1, close - 1)

\* Positions where re.search(r"(?:^|::)(?:opencascade::)?handle<([^>]+)>",
\* ss, re.IGNORECASE) can place "handle<": at the start of ss or right
\* after "::" (the optional "opencascade::" ends with "::" as well).
HandleMatchPositions(ss) ==
    { q \in 1..(Len(ss) - 6) :
        /\ LowerStr(SubSeq(ss, q, q + 6)) = "handle<"
        /\ (q = 1 \/ (q >= 3 /\ SubSeq(ss, q - 2, q - 1) = "::"))
        /\ HandleInnerAt(ss, q) # None }

\* _match_occt_handle_type returning the inner type in place of the handle type
_match_occt_handle_inner(spelling) ==
    LET s  == _strip_cv_and_class_kw(spelling)
        ss == RemoveSpaces(s)
        qs == HandleMatchPositions(ss)
    IN  IF qs = {} THEN None
        ELSE LET q == CHOOSE q \in qs : \A r \in qs : q <= r
             IN  HandleInnerAt(ss, q)

_match_occt_handle_type(spelling) ==
    LET s  == _strip_cv_and_class_kw(spelling)
        ss == RemoveSpaces(s)
        qs == HandleMatchPositions(ss)
    IN  IF qs = {} THEN None
        ELSE LET q == CHOOSE q \in qs : \A r \in qs : q <= r
             IN  "opencascade::handle<" \o HandleInnerAt(ss, q) \o ">"

\* models.py : CppType.from_spelling
from_spelling(spelling) ==
    [ spelling     |-> spelling,
      is_const     |-> Contains(spelling, "const"),
      is_pointer   |-> Contains(spelling, "*"),
      is_reference |-> Contains(spelling, "&") ]

(***************************************************************************)
(* type_mapping.py : mapping model and TypeMapper                          *)
(*                                                                         *)
(* `self` is the mapper: [known_wrapped, config], config being             *)
(* [enable_opaque_handles, use_wrapped_param_bridge, enable_std_string,    *)
(*  custom_rules]; a dict is a function on its set of keys.                *)
(***************************************************************************)

MappedKind == { "PRIMITIVE", "STRING", "WRAPPED_CLASS", "OPAQUE_HANDLE", "VOID", "UNSUPPORTED" }

\* dataclass MappedType, fields in declaration order
MappedType(native, exposed, kind, to_native, from_native, pre, post, default, notes) ==
    [ native_spelling       |-> native,
      exposed_spelling      |-> exposed,
      kind                  |-> kind,
      to_native_expr        |-> to_native,
      from_native_expr      |-> from_native,
      pre_call_lines        |-> pre,
      post_call_lines       |-> post,
      default_exposed_value |-> default,
      notes                 |-> notes ]

\* dataclass MappingRule
MappingRule(match, exposed, kind, to_native, from_native, pre, post, notes) ==
    [ match            |-> match,
      exposed_spelling |-> exposed,
      kind             |-> kind,
      to_native_expr   |-> to_native,
      from_native_expr |-> from_native,
      pre_call_lines   |-> pre,
      post_call_lines  |-> post,
      notes            |-> notes ]

\* the None that dict.get returns when no rule is keyed by the identifier
NoRule == MappingRule(None, None, None, None, None, <<>>, <<>>, None)

\* MappingConfig.with_rule: custom_rules[_base_identifier(rule.match)] = rule
with_rule(config, rule) ==
    LET key == _base_identifier(rule.match)
    IN  [config EXCEPT !.custom_rules =
            [k \in (DOMAIN config.custom_rules) \cup {key} |->
                IF k = key THEN rule ELSE config.custom_rules[k]]]

_match_custom_rule(self, t) ==
    LET base == _base_identifier(t.spelling)
    IN  IF base \in DOMAIN self.config.custom_rules
        THEN self.config.custom_rules[base]
        ELSE NoRule

_void_mapping == MappedType("void", "void", "VOID", None, None, <<>>, <<>>, None, None)

\* _primitive_mapping exposing the spelling as written, qualifiers included
_primitive_mapping_as_written(t) ==
    LET s == _strip_cv_and_class_kw(t.spelling)
        default_expr == IF s = "bool" THEN "false"
                        ELSE IF _is_integral(s) THEN "0"
                        ELSE IF _is_floating(s) THEN "0.0"
                        ELSE None
    IN  MappedType(s, t.spelling, "PRIMITIVE", None, None, <<>>, <<>>, default_expr, None)

_primitive_mapping(t) ==
    LET s == _strip_cv_and_class_kw(t.spelling)
        default_expr == IF s = "bool" THEN "false"
                        ELSE IF _is_integral(s) THEN "0"
                        ELSE IF _is_floating(s) THEN "0.0"
                        ELSE None
    IN  MappedType(s, s, "PRIMITIVE", None, None, <<>>, <<>>, default_expr, None)

\* _string_param_mapping_c_char_ptr taking the pointer before the buffer exists
_string_param_mapping_c_char_ptr_cstr_first(t, pname) ==
    LET pre == << "const char* __" \o pname \o "_cstr = __" \o pname \o "_utf8.get_data();",
                  "godot::CharString __" \o pname \o "_utf8 = " \o pname \o ".utf8();" >>
    IN  MappedType(_strip_cv_and_class_kw(t.spelling), "godot::String", "STRING",
                   "__" \o pname \o "_cstr", None, pre, <<>>, None,
                   "godot::String -> const char* conversion uses temporary CharString")

_string_param_mapping_c_char_ptr(t, pname) ==
    LET pre == << "godot::CharString __" \o pname \o "_utf8 = " \o pname \o ".utf8();",
                  "const char* __" \o pname \o "_cstr = __" \o pname \o "_utf8.get_data();" >>
    IN  MappedType(_strip_cv_and_class_kw(t.spelling), "godot::String", "STRING",
                   "__" \o pname \o "_cstr", None, pre, <<>>, None,
                   "godot::String -> const char* conversion uses temporary CharString")

_string_param_mapping_std_string(t, pname) ==
    LET pre == << "godot::CharString __" \o pname \o "_utf8 = " \o pname \o ".utf8();",
                  "std::string __" \o pname \o "_std(__" \o pname \o "_utf8.get_data());" >>
    IN  MappedType(_strip_cv_and_class_kw(t.spelling), "godot::String", "STRING",
                   "__" \o pname \o "_std", None, pre, <<>>, None,
                   "godot::String -> std::string via UTF-8")

_string_return_mapping_c_char_ptr(t) ==
    MappedType(_strip_cv_and_class_kw(t.spelling), "godot::String", "STRING",
               None, "godot::String::utf8({expr})", <<>>, <<>>, "godot::String()",
               "Assumes returned char* is valid and null-terminated")

_string_return_mapping_std_string(t) ==
    MappedType(_strip_cv_and_class_kw(t.spelling), "godot::String", "STRING",
               None, "godot::String::utf8({expr}.c_str())", <<>>, <<>>, "godot::String()",
               "std::string -> String via UTF-8")

\* _wrapped_param_mapping_ptr passing the pointer itself whatever the parameter
_wrapped_param_mapping_ptr_no_deref(t, pname, native_base, wrapper_name) ==
    MappedType(_strip_cv_and_class_kw(t.spelling),
               "godot::Ref<" \o wrapper_name \o ">", "WRAPPED_CLASS",
               "reinterpret_cast<" \o native_base \o "*>(__ocgd_get_impl({var}.ptr()))",
               None, <<>>, <<>>, None,
               "Bridge Ref<" \o wrapper_name \o "> -> " \o native_base
                   \o (IF t.is_reference THEN "&" ELSE "*") \o " via __ocgd_get_impl()")

_wrapped_param_mapping_ptr(t, pname, native_base, wrapper_name) ==
    LET expr == IF t.is_reference
                THEN "*reinterpret_cast<" \o native_base \o "*>(__ocgd_get_impl({var}.ptr()))"
                ELSE "reinterpret_cast<" \o native_base \o "*>(__ocgd_get_impl({var}.ptr()))"
    IN  MappedType(_strip_cv_and_class_kw(t.spelling),
                   "godot::Ref<" \o wrapper_name \o ">", "WRAPPED_CLASS",
                   expr, None, <<>>, <<>>, None,
                   "Bridge Ref<" \o wrapper_name \o "> -> " \o native_base
                       \o (IF t.is_reference THEN "&" ELSE "*") \o " via __ocgd_get_impl()")

\* _wrapped_return_mapping_ptr handing the returned pointer to the handle registry
_wrapped_return_mapping_ptr_opaque(t, native_base, wrapper_name) ==
    MappedType(_strip_cv_and_class_kw(t.spelling), "uint64_t", "OPAQUE_HANDLE",
               None, "OpaqueHandleRegistry<" \o native_base \o ">::put({expr})", <<>>, <<>>, "0",
               "Opaque pointer -> handle mapping for " \o native_base
                   \o "* (requires runtime registry)")

_wrapped_return_mapping_ptr(t, native_base, wrapper_name) ==
    MappedType(_strip_cv_and_class_kw(t.spelling),
               "godot::Ref<" \o wrapper_name \o ">", "WRAPPED_CLASS",
               None, "__ocgd_make_from_impl(reinterpret_cast<void*>({expr}))", <<>>, <<>>,
               "godot::Ref<" \o wrapper_name \o ">()",
               "Wrap returned " \o native_base \o "* into Ref<" \o wrapper_name
                   \o "> via __ocgd_make_from_impl()")

\* _opaque_handle_return_mapping_ptr naming the registry of the pointer type
_opaque_handle_return_mapping_ptr_by_spelling(t) ==
    LET base_norm == _strip_cv_and_class_kw(t.spelling)
    IN  MappedType(_strip_cv_and_class_kw(t.spelling), "uint64_t", "OPAQUE_HANDLE",
                   None, "OpaqueHandleRegistry<" \o base_norm \o ">::put({expr})", <<>>, <<>>, "0",
                   "Opaque pointer -> handle mapping for " \o base_norm
                       \o "* (requires runtime registry)")

_opaque_handle_return_mapping_ptr(t) ==
    LET base_norm == _base_identifier(t.spelling)
    IN  MappedType(_strip_cv_and_class_kw(t.spelling), "uint64_t", "OPAQUE_HANDLE",
                   None, "OpaqueHandleRegistry<" \o base_norm \o ">::put({expr})", <<>>, <<>>, "0",
                   "Opaque pointer -> handle mapping for " \o base_norm
                       \o "* (requires runtime registry)")

\* The unsupported result of the three last branches of _map_parameter and
\* the two last of _map_return, which differ in their notes only.
Unsupported(t, notes) ==
    MappedType(_strip_cv_and_class_kw(t.spelling), "<unsupported>", "UNSUPPORTED",
               None, None, <<>>, <<>>, None, notes)

\* the custom-rule branch taking the rule's kind and spelling but not its conversions
CustomMappingKindOnly(t, custom) ==
    MappedType(_strip_cv_and_class_kw(t.spelling), custom.exposed_spelling, custom.kind,
               None, None,
               custom.pre_call_lines, custom.post_call_lines, None, custom.notes)

\* MappedType(...) built from a custom rule (same in both positions)
CustomMapping(t, custom) ==
    MappedType(_strip_cv_and_class_kw(t.spelling), custom.exposed_spelling, custom.kind,
               custom.to_native_expr, custom.from_native_expr,
               custom.pre_call_lines, custom.post_call_lines, None, custom.notes)

_map_parameter(self, t, pname) ==
    IF _strip_cv_and_class_kw(t.spelling) = "void"
    THEN MappedType("void", "void", "UNSUPPORTED", None, None, <<>>, <<>>, None,
                    "void parameter is invalid")
    ELSE IF _is_integral(t.spelling) \/ _is_floating(t.spelling)
    THEN _primitive_mapping(t)
    ELSE IF _is_c_char_ptr_const(t)
    THEN _string_param_mapping_c_char_ptr(t, pname)
    ELSE IF _is_c_char_ptr(t)
    THEN MappedType(_strip_cv_and_class_kw(t.spelling), "intptr_t", "PRIMITIVE",
                    "reinterpret_cast<char*>(static_cast<intptr_t>({var}))", None,
                    <<>>, <<>>, "0",
                    "Map writable char* parameter to intptr_t for Variant API")
    ELSE IF self.config.enable_std_string /\ _is_std_string(t.spelling)
    THEN _string_param_mapping_std_string(t, pname)
    ELSE LET handle_type == _match_occt_handle_type(t.spelling) IN
    IF handle_type # None
    THEN MappedType(_strip_cv_and_class_kw(t.spelling), "uint64_t", "OPAQUE_HANDLE",
                    "*OpaqueHandleRegistry<" \o handle_type \o ">::get({var})", None,
                    <<>>, <<>>, None,
                    "OCCT handle parameter mapped to opaque handle (registry of "
                        \o handle_type \o ")")
    ELSE IF t.is_pointer /\ _base_identifier(t.spelling) = "void"
    THEN MappedType(_strip_cv_and_class_kw(t.spelling), "intptr_t", "PRIMITIVE",
                    "reinterpret_cast<void*>(static_cast<intptr_t>({var}))", None,
                    <<>>, <<>>, "0",
                    "Map void* parameter to intptr_t for Variant API")
    ELSE LET custom == _match_custom_rule(self, t) IN
    IF custom # NoRule
    THEN CustomMapping(t, custom)
    ELSE LET base == _base_identifier(t.spelling)
             base_abs == _absolute_qualified_name(base) IN
    IF /\ (t.is_pointer \/ t.is_reference)
       /\ base_abs \in DOMAIN self.known_wrapped
       /\ self.config.use_wrapped_param_bridge
    THEN _wrapped_param_mapping_ptr(t, pname, base_abs, self.known_wrapped[base_abs])
    ELSE IF t.is_pointer
    THEN IF _is_pointer_to_primitive(t)
         THEN MappedType(_strip_cv_and_class_kw(t.spelling), "intptr_t", "PRIMITIVE",
                         "reinterpret_cast<" \o _base_identifier(t.spelling)
                             \o "*>(static_cast<intptr_t>({var}))", None,
                         <<>>, <<>>, "0",
                         "Pointer to primitive mapped to intptr_t (no opaque handle needed)")
         ELSE IF self.config.enable_opaque_handles
         THEN LET base_norm == _base_identifier(t.spelling) IN
              MappedType(_strip_cv_and_class_kw(t.spelling), "uint64_t", "OPAQUE_HANDLE",
                         "OpaqueHandleRegistry<" \o base_norm \o ">::get({var})", None,
                         <<>>, <<>>, None,
                         "Opaque handle -> pointer mapping for " \o base_norm
                             \o "* (requires runtime registry)")
         ELSE Unsupported(t, "Pointer parameter to unknown type is not supported")
    ELSE IF t.is_reference
    THEN Unsupported(t, "Reference parameter to unknown type is not supported")
    ELSE Unsupported(t, "Type not recognized as Variant-compatible or convertible")

_map_return(self, t) ==
    IF _strip_cv_and_class_kw(t.spelling) = "void"
    THEN _void_mapping
    ELSE IF _is_integral(t.spelling) \/ _is_floating(t.spelling)
    THEN _primitive_mapping(t)
    ELSE IF _is_c_char_ptr(t)
    THEN _string_return_mapping_c_char_ptr(t)
    ELSE IF self.config.enable_std_string /\ _is_std_string(t.spelling)
    THEN _string_return_mapping_std_string(t)
    ELSE LET handle_type == _match_occt_handle_type(t.spelling) IN
    IF handle_type # None
    THEN MappedType(_strip_cv_and_class_kw(t.spelling), "uint64_t", "OPAQUE_HANDLE",
                    None, "OpaqueHandleRegistry<" \o handle_type \o ">::put(new "
                        \o handle_type \o "({expr}))",
                    <<>>, <<>>, "0",
                    "OCCT handle return mapped to opaque handle (registry of "
                        \o handle_type \o ")")
    ELSE IF t.is_pointer /\ _base_identifier(t.spelling) = "void"
    THEN MappedType(_strip_cv_and_class_kw(t.spelling), "intptr_t", "PRIMITIVE",
                    None, "reinterpret_cast<intptr_t>({expr})", <<>>, <<>>, "0",
                    "Map void* return to intptr_t for Variant API")
    ELSE LET custom == _match_custom_rule(self, t) IN
    IF custom # NoRule
    THEN CustomMapping(t, custom)
    ELSE LET base == _base_identifier(t.spelling)
             base_abs == _absolute_qualified_name(base) IN
    IF t.is_pointer /\ base_abs \in DOMAIN self.known_wrapped
    THEN _wrapped_return_mapping_ptr(t, base_abs, self.known_wrapped[base_abs])
    ELSE IF t.is_pointer /\ self.config.enable_opaque_handles
    THEN IF _is_pointer_to_primitive(t)
         THEN MappedType(_strip_cv_and_class_kw(t.spelling), "intptr_t", "PRIMITIVE",
                         None, "reinterpret_cast<intptr_t>({expr})", <<>>, <<>>, "0",
                         "Pointer to primitive mapped to intptr_t (no opaque handle needed)")
         ELSE _opaque_handle_return_mapping_ptr(t)
    ELSE IF t.is_reference \/ (Contains(base, "::") /\ ~t.is_pointer)
    THEN Unsupported(t, "Returning complex class by value/reference is not supported without explicit mapping")
    ELSE Unsupported(t, "Return type not recognized as Variant-compatible or convertible")

(***************************************************************************)
(* utils.py : camel_to_snake, sanitize_identifier                          *)
(***************************************************************************)

\* the loop of camel_to_snake over the rest of the name
RECURSIVE CamelFrom(_, _, _)
CamelFrom(name, prev_lower, prev_char) ==
    IF Len(name) = 0 THEN ""
    ELSE LET ch == CharAt(name, 1)
             sep == IF IsUpperCh(ch)
                       /\ (prev_lower \/ (prev_char # "" /\ IsAlphaCh(prev_char) /\ prev_char # "_"))
                    THEN "_" ELSE ""
         IN  sep \o LowerCh(ch) \o CamelFrom(DropFirst(name, 1), IsLowerCh(ch), ch)

camel_to_snake(name) == CamelFrom(name, FALSE, "")

ReservedIdentifiers ==
    { "class", "enum", "struct", "union", "template", "operator", "signal", "var",
      "const", "static", "void", "int", "float", "bool", "true", "false", "self",
      "super", "_init", "_ready", "_process", "_physics_process" }

sanitize_identifier(name) ==
    LET snake == camel_to_snake(name)
    IN  IF snake \in ReservedIdentifiers THEN snake \o "_" ELSE snake

(***************************************************************************)
(* models.py : MethodInfo, ClassInfo                                       *)
(***************************************************************************)

MethodKind == { "CONSTRUCTOR", "DESTRUCTOR", "INSTANCE", "STATIC", "OPERATOR" }

\* dataclass ParameterInfo (name, cpp_type)
ParameterInfo(name, cpp_type) == [ name |-> name, cpp_type |-> cpp_type ]

\* dataclass MethodInfo: the fields lowering and disambiguation read;
\* overload_index and _explicit_exposed_name start as None
MethodInfo(name, return_type, parameters, is_const, kind, usr) ==
    [ name                   |-> name,
      return_type            |-> return_type,
      parameters             |-> parameters,
      is_const               |-> is_const,
      kind                   |-> kind,
      usr                    |-> usr,
      overload_index         |-> NoIndex,
      explicit_exposed_name  |-> None ]

\* the loop of signature_key over the parameters
RECURSIVE ParamSpellings(_)
ParamSpellings(parameters) ==
    IF Len(parameters) = 0 THEN ""
    ELSE parameters[1].cpp_type.spelling \o "," \o ParamSpellings(Tail(parameters))

\* MethodInfo.signature_key
signature_key(m) ==
    m.name \o "|" \o ParamSpellings(m.parameters)
        \o (IF m.is_const THEN "|C" ELSE "|")
        \o "->" \o m.return_type.spelling

\* exposed_name suffixing every indexed overload, index 0 included
exposed_name_suffix_all(m) ==
    LET base == sanitize_identifier(IF m.explicit_exposed_name \notin {None, ""}
                                    THEN m.explicit_exposed_name ELSE m.name)
    IN  IF m.kind \in {"CONSTRUCTOR", "DESTRUCTOR"} THEN base
        ELSE IF m.overload_index # NoIndex /\ m.overload_index >= 0
             THEN base \o "_" \o IntToStr(m.overload_index)
             ELSE base

\* MethodInfo.exposed_name
exposed_name(m) ==
    LET base == sanitize_identifier(IF m.explicit_exposed_name \notin {None, ""}
                                    THEN m.explicit_exposed_name ELSE m.name)
    IN  IF m.kind \in {"CONSTRUCTOR", "DESTRUCTOR"} THEN base
        ELSE IF m.overload_index # NoIndex /\ m.overload_index > 0
             THEN base \o "_" \o IntToStr(m.overload_index)
             ELSE base

\* dataclass ClassInfo: name, namespaces, wrapper_prefix (methods are state)
ClassInfo(name, namespaces, wrapper_prefix) ==
    [ name |-> name, namespaces |-> namespaces, wrapper_prefix |-> wrapper_prefix ]

\* ClassInfo.qualified_name
qualified_name(ci) ==
    IF Len(ci.namespaces) > 0 THEN Join("::", ci.namespaces \o <<ci.name>>) ELSE ci.name

\* ClassInfo.wrapper_name
wrapper_name(ci) == IF ci.wrapper_prefix # "" THEN ci.wrapper_prefix \o ci.name ELSE ci.name

(***************************************************************************)
(* clang_parser.py : _assign_overload_indices                              *)
(***************************************************************************)

\* kind_group of a method that takes part in disambiguation
\* kind_group keeping operators in a group of their own
kind_group_operators_apart(m) ==
    IF m.kind = "STATIC" THEN "static"
    ELSE IF m.kind = "OPERATOR" THEN "operator" ELSE "instance"

kind_group(m) == IF m.kind = "STATIC" THEN "static" ELSE "instance"

\* the kinds the first loop does not skip
Grouped(m) == m.kind \in {"INSTANCE", "STATIC", "OPERATOR"}

\* the key (kind_group, base_name) under which the first loop files a
\* method; <<>> for a method it skips
GroupKey(m) == IF Grouped(m) THEN << kind_group(m), sanitize_identifier(m.name) >> ELSE <<>>

\* groups[key]: the indices filed under key, in insertion order, given the
\* key of every method
RECURSIVE GroupFrom(_, _, _)
GroupFrom(keys, key, i) ==
    IF i > Len(keys) THEN <<>>
    ELSE (IF keys[i] = key THEN <<i>> ELSE <<>>) \o GroupFrom(keys, key, i + 1)

\* list.insert keeping equal keys in their original order (sorted is
\* stable), given the signature_key of every method
RECURSIVE InsertByKey(_, _, _)
InsertByKey(sigs, sortedIdxs, j) ==
    IF Len(sortedIdxs) = 0 THEN <<j>>
    ELSE IF StrLess(sigs[j], sigs[sortedIdxs[1]])
         THEN <<j>> \o sortedIdxs
         ELSE <<sortedIdxs[1]>> \o InsertByKey(sigs, Tail(sortedIdxs), j)

\* sorted(idxs, key=lambda j: ci.methods[j].signature_key)
RECURSIVE SortedByKey(_, _)
SortedByKey(sigs, idxs) ==
    IF Len(idxs) = 0 THEN <<>>
    ELSE InsertByKey(sigs, SortedByKey(sigs, SubSeq(idxs, 1, Len(idxs) - 1)),
                     idxs[Len(idxs)])

\* position of j in the sequence idxs, counted from 0 (enumerate)
OrderOf(idxs, j) == (CHOOSE k \in 1..Len(idxs) : idxs[k] = j) - 1

\* the second loop, given the group key and the signature_key of every method
AssignWithKeys(methods, keys, sigs) ==
    [ j \in 1..Len(methods) |->
        IF keys[j] = <<>> THEN methods[j]
        ELSE LET idxs == GroupFrom(keys, keys[j], 1)
             IN  IF Len(idxs) <= 1 THEN methods[j]
                 ELSE [methods[j] EXCEPT
                         !.overload_index = OrderOf(SortedByKey(sigs, idxs), j)] ]

_assign_overload_indices(methods) ==
    CHOOSE out \in
        { AssignWithKeys(methods, keys, sigs) :
            keys \in { [ i \in 1..Len(methods) |-> GroupKey(methods[i]) ] },
            sigs \in { [ i \in 1..Len(methods) |-> signature_key(methods[i]) ] } } : TRUE

(***************************************************************************)
(* type_mapping.py : TypeMapper.from_classes, TypeMapper.map_method        *)
(***************************************************************************)

\* TypeMapper.from_classes: km[_absolute_qualified_name(q)] = wrapper
from_classes(classes) ==
    [ k \in { _absolute_qualified_name(qualified_name(ci)) : ci \in classes } |->
        wrapper_name(CHOOSE ci \in classes : _absolute_qualified_name(qualified_name(ci)) = k) ]

\* dataclass MappedMethod
MappedMethod(cls, m, exposed_params, exposed_return, supported, reason, pre, post) ==
    [ cls_native_qname |-> qualified_name(cls),
      cls_wrapper_name |-> wrapper_name(cls),
      method_name      |-> m.name,
      is_const         |-> m.is_const,
      is_static        |-> (m.kind = "STATIC"),
      exposed_params   |-> exposed_params,
      exposed_return   |-> exposed_return,
      supported        |-> supported,
      reason           |-> reason,
      exposed_name     |-> exposed_name(m),
      overload_index   |-> m.overload_index,
      pre_call_lines   |-> pre,
      post_call_lines  |-> post ]

\* pname = p.name or f"arg{i}"
ParamName(p, i) == IF p.name # "" THEN p.name ELSE "arg" \o IntToStr(i)

\* self._map_parameter(p.cpp_type, pname) of every parameter. The loop of
\* map_method classifies them one by one and stops at the first
\* unsupported one; _map_parameter has no effect, so classifying them up
\* front changes nothing the loop returns.
ParamMappings(self, parameters) ==
    [ i \in 1..Len(parameters) |->
        _map_parameter(self, parameters[i].cpp_type, ParamName(parameters[i], i)) ]

\* The parameter loop of map_method from parameter i on: the first
\* unsupported parameter ends it, else the parameters' mappings and
\* statements are accumulated in order.
RECURSIVE MapParamsFrom(_, _, _, _, _, _)
MapParamsFrom(parameters, pmappings, i, exposed_params, pre_lines, post_lines) ==
    IF i > Len(parameters)
    THEN [ failed |-> FALSE, exposed_params |-> exposed_params,
           pre_lines |-> pre_lines, post_lines |-> post_lines ]
    ELSE IF pmappings[i].kind = "UNSUPPORTED"
    THEN [ failed |-> TRUE,
           reason |-> "Unsupported parameter '" \o ParamName(parameters[i], i) \o "' type '"
                          \o parameters[i].cpp_type.spelling \o "'" ]
    ELSE MapParamsFrom(parameters, pmappings, i + 1,
                       Append(exposed_params,
                              [ name |-> ParamName(parameters[i], i), mapping |-> pmappings[i] ]),
                       pre_lines \o pmappings[i].pre_call_lines,
                       post_lines \o pmappings[i].post_call_lines)

\* the parameter loop of map_method, whole
MapParams(self, parameters) ==
    CHOOSE ps \in { MapParamsFrom(parameters, pmappings, 1, <<>>, <<>>, <<>>) :
                      pmappings \in { ParamMappings(self, parameters) } } : TRUE

\* map_method's result with nothing accumulated in an unsupported record
MethodResultBare(cls, m, ps, rmapping) ==
    IF ps.failed
    THEN MappedMethod(cls, m, <<>>, _void_mapping, FALSE, ps.reason, <<>>, <<>>)
    ELSE IF rmapping.kind = "UNSUPPORTED"
    THEN MappedMethod(cls, m, ps.exposed_params, rmapping, FALSE,
                      "Unsupported return type '" \o m.return_type.spelling \o "'",
                      <<>>, <<>>)
    ELSE MappedMethod(cls, m, ps.exposed_params, rmapping, TRUE, None,
                      ps.pre_lines \o rmapping.pre_call_lines,
                      ps.post_lines \o rmapping.post_call_lines)

\* What map_method returns once the parameter loop gave ps and, when it
\* went through, _map_return gave rmapping.
MethodResult(cls, m, ps, rmapping) ==
    IF ps.failed
    THEN MappedMethod(cls, m, <<>>, _void_mapping, FALSE, ps.reason, <<>>, <<>>)
    ELSE IF rmapping.kind = "UNSUPPORTED"
    THEN MappedMethod(cls, m, ps.exposed_params, rmapping, FALSE,
                      "Unsupported return type '" \o m.return_type.spelling \o "'",
                      ps.pre_lines, ps.post_lines)
    ELSE MappedMethod(cls, m, ps.exposed_params, rmapping, TRUE, None,
                      ps.pre_lines \o rmapping.pre_call_lines,
                      ps.post_lines \o rmapping.post_call_lines)

\* What map_method would return if it looked at the return type first.
MethodResultReturnFirst(cls, m, ps, rmapping) ==
    IF rmapping.kind = "UNSUPPORTED"
    THEN MappedMethod(cls, m, <<>>, rmapping, FALSE,
                      "Unsupported return type '" \o m.return_type.spelling \o "'",
                      <<>>, <<>>)
    ELSE IF ps.failed
    THEN MappedMethod(cls, m, <<>>, _void_mapping, FALSE, ps.reason, <<>>, <<>>)
    ELSE MappedMethod(cls, m, ps.exposed_params, rmapping, TRUE, None,
                      ps.pre_lines \o rmapping.pre_call_lines,
                      ps.post_lines \o rmapping.post_call_lines)

\* map_method classifying the return type ahead of the parameters
map_method_return_first(self, cls, m) ==
    CHOOSE mapped \in { MethodResultReturnFirst(cls, m, ps, rmapping) :
                          ps \in { MapParams(self, m.parameters) },
                          rmapping \in { _map_return(self, m.return_type) } } : TRUE

\* TypeMapper.map_method (_map_return has no effect, so evaluating it when
\* the parameter loop failed changes nothing)
map_method(self, cls, m) ==
    CHOOSE mapped \in { MethodResult(cls, m, ps, rmapping) :
                          ps \in { MapParams(self, m.parameters) },
                          rmapping \in { _map_return(self, m.return_type) } } : TRUE

\* map_method run on a rule list of the configuration: the statements of a
\* return type that a custom rule decided are appended to that rule's own
\* pre_call_lines
map_method_call_extending_rule(self, cls, m) ==
    LET ret  == map_method(self, cls, m)
        base == _base_identifier(m.return_type.spelling)
        rules == self.config.custom_rules
    IN  [ ret  |-> ret,
          self |-> [ self EXCEPT !.config.custom_rules =
                       [ k \in DOMAIN rules |->
                           IF k = base /\ ret.supported
                           THEN [ rules[k] EXCEPT !.pre_call_lines = @ \o ret.pre_call_lines ]
                           ELSE rules[k] ] ],
          m    |-> m ]

\* A call mm = mapper.map_method(cls, m) as its caller sees it: the value
\* returned, and the mapper and the method record as the call leaves them.
\* map_method and the classifiers assign no attribute of self, self.config,
\* cls or m; the lists they grow (exposed_params, pre_lines, post_lines) are
\* created by the call, and the custom-rule branch copies the rule's
\* statement lists into the MappedType it builds.
map_method_call(self, cls, m) ==
    [ ret |-> map_method(self, cls, m), self |-> self, m |-> m ]

(***************************************************************************)
(* emitters/godot_variant_emitter.py: the call data of a supported method  *)
(***************************************************************************)

\* [pl.replace("{var}", name) for pl in mp.mapping.pre_call_lines]
SubstituteVar(lines, name) ==
    [ k \in 1..Len(lines) |-> Replace(lines[k], "{var}", name) ]

\* The loop of build_param_call_data from parameter i on.
RECURSIVE BuildParamCallDataFrom(_, _, _, _)
BuildParamCallDataFrom(params, i, pre_lines, native_args) ==
    IF i > Len(params)
    THEN [ pre_lines |-> pre_lines, native_args |-> native_args ]
    ELSE LET mp == params[i]
         IN  BuildParamCallDataFrom(params, i + 1,
                 pre_lines \o SubstituteVar(mp.mapping.pre_call_lines, mp.name),
                 Append(native_args,
                        IF mp.mapping.to_native_expr \notin {None, ""}
                        THEN Replace(mp.mapping.to_native_expr, "{var}", mp.name)
                        ELSE mp.name))

build_param_call_data(params) ==
    BuildParamCallDataFrom(params, 1, <<>>, <<>>)

(***************************************************************************)
(* Inputs                                                                  *)
(***************************************************************************)

\* most parameters of a lowered method
MaxParams == 2

\* most methods parsed into one class
MaxMethods == 3

\* the wrapper-name prefix of the run
WrapperPrefix == "W_"

\* the classes of the run: Box and its wrapped sibling Vec3
Vec3Class == ClassInfo("Vec3", <<>>, WrapperPrefix)
BoxClass == ClassInfo("Box", <<>>, WrapperPrefix)
Classes == { Vec3Class, BoxClass }

\* type spellings as clang prints them
Spellings ==
    { "void", "bool", "int", "const unsigned long", "double",
      "const char *", "char const *", "char *",
      "std::string", "const std::string &", "const std::basic_string<char> &",
      "opencascade::handle<Geom_Curve>", "const Handle<Geom_Curve> &", "void *",
      "Vec3 *", "const Vec3 &", "Vec3",
      "Foo *", "Foo &", "Foo", "ns::Foo", "Foo **",
      "int *", "const int &" }

\* scalar spellings classified under every value of the three flags
FlagFreeSpellings == { "bool", "const double" }

CppTypes ==
    { from_spelling(sp) : sp \in Spellings }
        \cup { [ spelling |-> sp, is_const |-> c, is_pointer |-> p, is_reference |-> r ] :
                 sp \in FlagFreeSpellings, c \in BOOLEAN, p \in BOOLEAN, r \in BOOLEAN }

ParamNames == { "v", "arg1" }

\* user rules handed to MappingConfig.with_rule
Vec3Rule ==
    MappingRule("Vec3", "godot::Vector3", "PRIMITIVE", "to_vec3({var})", "from_vec3({expr})",
                <<>>, <<>>, "Vec3 <-> Vector3")
IntRule ==
    MappingRule("const int *", "godot::PackedInt32Array", "PRIMITIVE", "{var}.ptrw()", None,
                <<"int __n = 0;">>, <<>>, "int buffers")
CustomRules == { Vec3Rule, IntRule }

\* parameters and return types of the methods handed to map_method
MethodParams ==
    { ParameterInfo("v", from_spelling("const Vec3 &")),
      ParameterInfo("", from_spelling("Foo &")),
      ParameterInfo("s", from_spelling("char const *")),
      ParameterInfo("", from_spelling("int")) }

MethodReturns == { from_spelling("int"), from_spelling("Foo"), from_spelling("int *") }

RECURSIVE SeqsUpTo(_, _)
SeqsUpTo(S, n) ==
    IF n = 0 THEN { <<>> }
    ELSE LET shorter == SeqsUpTo(S, n - 1)
         IN  shorter \cup { Append(q, x) : q \in { r \in shorter : Len(r) = n - 1 }, x \in S }

\* the methods of Box the parser can produce (usr: clang's identity token)
SetOriginVec ==
    MethodInfo("set_origin", from_spelling("void"),
               <<ParameterInfo("v", from_spelling("const Vec3 &"))>>, FALSE, "INSTANCE", "u:vec&")
SetOriginVecRvalue ==
    MethodInfo("set_origin", from_spelling("void"),
               <<ParameterInfo("v", from_spelling("const Vec3 &"))>>, FALSE, "INSTANCE", "u:vec&&")
SetOriginXyz ==
    MethodInfo("set_origin", from_spelling("void"),
               <<ParameterInfo("x", from_spelling("double")),
                 ParameterInfo("y", from_spelling("double")),
                 ParameterInfo("z", from_spelling("double"))>>, FALSE, "INSTANCE", "u:xyz")
SetOriginStatic ==
    MethodInfo("SetOrigin", from_spelling("void"),
               <<ParameterInfo("i", from_spelling("int"))>>, FALSE, "STATIC", "u:static")
SetOrigin1 ==
    MethodInfo("set_origin_1", from_spelling("void"), <<>>, FALSE, "INSTANCE", "u:one")
OperatorMethod ==
    MethodInfo("operator_set_origin", from_spelling("int"),
               <<ParameterInfo("i", from_spelling("int"))>>, TRUE, "OPERATOR", "u:op")
OperatorLike ==
    MethodInfo("OperatorSetOrigin", from_spelling("int"),
               <<ParameterInfo("i", from_spelling("int"))>>, FALSE, "INSTANCE", "u:oplike")
BoxCtor ==
    MethodInfo("Box", from_spelling("void"),
               <<ParameterInfo("i", from_spelling("int"))>>, FALSE, "CONSTRUCTOR", "u:ctor")
BoxDtor ==
    MethodInfo("~Box", from_spelling("void"), <<>>, FALSE, "DESTRUCTOR", "u:dtor")

ParsedMethods ==
    { SetOriginVec, SetOriginVecRvalue, SetOriginXyz, SetOriginStatic, SetOrigin1,
      OperatorMethod, OperatorLike, BoxCtor, BoxDtor }

(***************************************************************************)
(* State                                                                   *)
(***************************************************************************)

VARIABLES
    pc,             \* "config": the MappingConfig is being built; "ready": the TypeMapper exists
    config,         \* MappingConfig
    known_wrapped,  \* TypeMapper.known_wrapped
    call,           \* the call on the mapper that has just returned, with its arguments
    result,         \* what that call returned
    methods,        \* ClassInfo.methods of Box, in insertion order
    assigned        \* _assign_overload_indices ran after the last method was parsed

\* a generation run (generate_bindings.main)
VARIABLES
    headers,        \* the translation units of the headers parsed so far, in header order
    class_map,      \* collect_classes_from_headers: class_map.values(), in insertion order
    classes,        \* what collect_classes_from_headers returned; None while it runs
    emitted         \* the wrappers _emit_class has written, in emission order

\* an instance of a generated wrapper class and the native objects around it
VARIABLES
    impl,           \* the wrapper's impl pointer; nullptr or a native object
    owns_impl,      \* the wrapper's owns_impl flag
    heap,           \* every native object: allocated or not, and what the wrapper did to it
    last_call       \* the member function of the wrapper that ran last, with its arguments

\* the directory atomic_write_text works in
VARIABLES
    dest,           \* the content of the destination file; None when it does not exist
    tmp,            \* the number of temporary files lying next to the destination
    calls           \* the calls of write_text and atomic_write_text made, with what they returned

mapperVars == << pc, config, known_wrapped, call, result >>
classVars == << methods, assigned >>
generateVars == << headers, class_map, classes, emitted >>
wrapperVars == << impl, owns_impl, heap, last_call >>
fileVars == << dest, tmp, calls >>
otherVars == << generateVars, wrapperVars, fileVars >>
vars == << pc, config, known_wrapped, call, result, methods, assigned,
           headers, class_map, classes, emitted,
           impl, owns_impl, heap, last_call, dest, tmp, calls >>

NoCall == [ op |-> "none" ]

\* the mapper object the methods of TypeMapper receive
Self == [ known_wrapped |-> known_wrapped, config |-> config ]

MapperIdle ==
    /\ pc = "config"
    /\ config = [ enable_opaque_handles |-> TRUE, use_wrapped_param_bridge |-> TRUE,
                  enable_std_string |-> TRUE, custom_rules |-> <<>> ]
    /\ known_wrapped = <<>>
    /\ call = NoCall
    /\ result = None

ClassIdle ==
    /\ methods = <<>>
    /\ assigned = FALSE

\* no generation run, no wrapper and no file yet
OtherIdle ==
    /\ headers = <<>> /\ class_map = <<>> /\ classes = None /\ emitted = <<>>
    /\ impl = 0 /\ owns_impl = TRUE /\ heap = <<>> /\ last_call = NoCall
    /\ dest = None /\ tmp = 0 /\ calls = <<>>

(***************************************************************************)
(* Type mapper: MappingConfig(...), with_rule, TypeMapper.from_classes,    *)
(* then calls of _map_parameter, _map_return and map_method                *)
(***************************************************************************)

Init ==
    /\ pc = "config"
    /\ config \in [ enable_opaque_handles : BOOLEAN, use_wrapped_param_bridge : BOOLEAN,
                    enable_std_string : BOOLEAN, custom_rules : { <<>> } ]
    /\ known_wrapped = <<>>
    /\ call = NoCall
    /\ result = None
    /\ ClassIdle
    /\ OtherIdle

WithRule(rule) ==
    /\ pc = "config"
    /\ config' = with_rule(config, rule)
    /\ UNCHANGED << pc, known_wrapped, call, result >>
    /\ UNCHANGED << classVars, otherVars >>

FromClasses ==
    /\ pc = "config"
    /\ known_wrapped' = from_classes(Classes)
    /\ pc' = "ready"
    /\ UNCHANGED << config, call, result >>
    /\ UNCHANGED << classVars, otherVars >>

MapParameter(t, pname) ==
    /\ pc = "ready"
    /\ call = NoCall
    /\ call' = [ op |-> "param", t |-> t, pname |-> pname ]
    /\ result' = _map_parameter(Self, t, pname)
    /\ UNCHANGED << pc, config, known_wrapped >>
    /\ UNCHANGED << classVars, otherVars >>

MapReturn(t) ==
    /\ pc = "ready"
    /\ call = NoCall
    /\ call' = [ op |-> "return", t |-> t ]
    /\ result' = _map_return(Self, t)
    /\ UNCHANGED << pc, config, known_wrapped >>
    /\ UNCHANGED << classVars, otherVars >>

MapMethod(m) ==
    /\ pc = "ready"
    /\ call = NoCall
    /\ call' = [ op |-> "method", m |-> m ]
    /\ result' = map_method(Self, BoxClass, m)
    /\ UNCHANGED << pc, config, known_wrapped >>
    /\ UNCHANGED << classVars, otherVars >>

\* The emitter builds the call of a supported method (unsupported ones are
\* skipped): param_pre_lines, native_args = build_param_call_data(mm.exposed_params)
BuildParamCallData ==
    /\ pc = "ready"
    /\ call # NoCall
    /\ call.op = "method"
    /\ result.supported
    /\ call' = [ op |-> "call_data", m |-> call.m, mm |-> result ]
    /\ result' = build_param_call_data(result.exposed_params)
    /\ UNCHANGED << pc, config, known_wrapped >>
    /\ UNCHANGED << classVars, otherVars >>

\* the caller takes the returned value; the mapper is idle again
Return ==
    /\ pc = "ready"
    /\ call # NoCall
    /\ call' = NoCall
    /\ result' = None
    /\ UNCHANGED << pc, config, known_wrapped >>
    /\ UNCHANGED << classVars, otherVars >>

LoweredMethods ==
    { MethodInfo("set_origin", r, ps, FALSE, "INSTANCE", "u:m") :
        r \in MethodReturns, ps \in SeqsUpTo(MethodParams, MaxParams) }

Next ==
    \/ \E rule \in CustomRules : WithRule(rule)
    \/ FromClasses
    \/ \E t \in CppTypes, pname \in ParamNames : MapParameter(t, pname)
    \/ \E t \in CppTypes : MapReturn(t)
    \/ \E m \in LoweredMethods : MapMethod(m)
    \/ BuildParamCallData
    \/ Return

Spec == Init /\ [][Next]_vars

(***************************************************************************)
(* Overload disambiguation: the parser appends the methods of a class      *)
(* (_collect_class_decls) and then runs _assign_overload_indices           *)
(***************************************************************************)

InitOverload ==
    /\ MapperIdle
    /\ ClassIdle
    /\ OtherIdle

\* ci.methods.append(mi)
ParseMethod(mi) ==
    /\ Len(methods) < MaxMethods
    /\ methods' = Append(methods, mi)
    /\ assigned' = FALSE
    /\ UNCHANGED << mapperVars, otherVars >>

AssignOverloadIndices ==
    /\ methods' = _assign_overload_indices(methods)
    /\ assigned' = TRUE
    /\ UNCHANGED << mapperVars, otherVars >>

NextOverload ==
    \/ \E mi \in ParsedMethods : ParseMethod(mi)
    \/ AssignOverloadIndices

SpecOverload == InitOverload /\ [][NextOverload]_vars

(***************************************************************************)
(* Lowering of a parsed class: _emit_class maps every method of the class  *)
(* with one mapper                                                         *)
(***************************************************************************)

\* a const method of Box that takes a C string and returns an int buffer
DataOf ==
    MethodInfo("data", from_spelling("int *"),
               <<ParameterInfo("s", from_spelling("char const *"))>>, TRUE, "INSTANCE", "u:data")

EmittedMethods == { SetOriginVec, SetOriginXyz, DataOf, BoxCtor }

\* the method lists of Box as the parser leaves them: no method twice,
\* overload indices assigned
EmittedClasses ==
    { _assign_overload_indices(ms) :
        ms \in { q \in SeqsUpTo(EmittedMethods, MaxMethods) :
                   \A a \in 1..Len(q), b \in 1..Len(q) : a # b => q[a] # q[b] } }

\* the configurations the generator can hand to the mapper
EmittedConfigs ==
    LET plain == { [ enable_opaque_handles |-> TRUE, use_wrapped_param_bridge |-> b,
                     enable_std_string |-> TRUE, custom_rules |-> <<>> ] : b \in BOOLEAN }
        one   == { with_rule(c, r) : c \in plain, r \in CustomRules }
    IN  plain \cup one \cup { with_rule(c, r) : c \in one, r \in CustomRules }

InitLowering ==
    /\ pc = "ready"
    /\ config \in EmittedConfigs
    /\ known_wrapped = from_classes(Classes)
    /\ call = [ op |-> "emit_class" ]
    /\ result = <<>>
    /\ methods \in EmittedClasses
    /\ assigned = TRUE
    /\ OtherIdle

\* mm = mapper.map_method(ci, m) for one method of the class, constructors
\* and destructors passed over; result keeps the mm of every method mapped
\* so far.  The methods are taken in any order.
LowerMethod(i) ==
    /\ i \in 1..Len(methods)
    /\ i \notin DOMAIN result
    /\ methods[i].kind \notin {"CONSTRUCTOR", "DESTRUCTOR"}
    /\ \E out \in { map_method_call(Self, BoxClass, methods[i]) } :
          /\ result' = [ j \in (DOMAIN result) \cup {i} |->
                           IF j = i THEN out.ret ELSE result[j] ]
          /\ config' = out.self.config
          /\ known_wrapped' = out.self.known_wrapped
          /\ methods' = [ methods EXCEPT ![i] = out.m ]
    /\ UNCHANGED << pc, call, assigned, otherVars >>

NextLowering == \E i \in 1..MaxMethods : LowerMethod(i)

SpecLowering == InitLowering /\ [][NextLowering]_vars

(***************************************************************************)
(* Properties of the type classifier (specification Spec)                  *)
(***************************************************************************)

\* the call that has just returned is a classification of one type
Classified == call.op \in {"param", "return"}

\* A pointer to const char, read off the spelling as written: a pointer
\* whose base identifier is char with a const token left of the first "*".
PointerToConstChar(t) ==
    /\ t.is_pointer
    /\ _base_identifier(t.spelling) = "char"
    /\ SeqHas(Split(_pointer_left_part(_normalize_spaces(Strip(t.spelling)))), "const")

\* A pointer to char that is not a pointer to const char.
PointerToWritableChar(t) ==
    /\ t.is_pointer
    /\ _base_identifier(t.spelling) = "char"
    /\ ~PointerToConstChar(t)

\* The standard string type under any const or reference qualification.
StdStringType(t) ==
    LET base == _base_identifier(t.spelling)
    IN  /\ ~t.is_pointer
        /\ \/ base = "std::string"
           \/ StartsWith(base, "std::basic_string<char")
           \/ StartsWith(base, "std::__cxx11::basic_string<char")

\* Whether rule n of the priority chain applies to t in position op.
RuleMatches(n, op, self, t) ==
    LET base == _base_identifier(t.spelling)
        wrapped == _absolute_qualified_name(base) \in DOMAIN self.known_wrapped
    IN  CASE n = 1  -> _strip_cv_and_class_kw(t.spelling) = "void"
          [] n = 2  -> _strip_cv_and_class_kw(t.spelling) \in IntegralNames \cup FloatingNames
          [] n = 3  -> PointerToConstChar(t)
          [] n = 4  -> PointerToWritableChar(t)
          [] n = 5  -> self.config.enable_std_string /\ StdStringType(t)
          [] n = 6  -> _match_occt_handle_type(t.spelling) # None
          [] n = 7  -> t.is_pointer /\ base = "void"
          [] n = 8  -> base \in DOMAIN self.config.custom_rules
          [] n = 9  -> IF op = "param"
                       THEN (t.is_pointer \/ t.is_reference) /\ wrapped
                                /\ self.config.use_wrapped_param_bridge
                       ELSE t.is_pointer /\ wrapped
          [] n = 10 -> t.is_pointer
          [] n = 11 -> t.is_reference
          [] n = 12 -> TRUE

FirstMatch(op, self, t) ==
    CHOOSE n \in 1..12 :
        /\ RuleMatches(n, op, self, t)
        /\ \A k \in 1..(n - 1) : ~RuleMatches(k, op, self, t)

\* Kind and exposed spelling that rule n gives t in position op.
RuleOutcome(n, op, self, t) ==
    LET pointee_outcome ==
            IF _is_pointer_to_primitive(t) /\ (op = "param" \/ self.config.enable_opaque_handles)
            THEN << "PRIMITIVE", "intptr_t" >>
            ELSE IF self.config.enable_opaque_handles
            THEN << "OPAQUE_HANDLE", "uint64_t" >>
            ELSE << "UNSUPPORTED", "<unsupported>" >>
    IN  CASE n = 1  -> IF op = "param" THEN << "UNSUPPORTED", "void" >> ELSE << "VOID", "void" >>
          [] n = 2  -> << "PRIMITIVE", _strip_cv_and_class_kw(t.spelling) >>
          [] n = 3  -> << "STRING", "godot::String" >>
          [] n = 4  -> IF op = "param" THEN << "PRIMITIVE", "intptr_t" >>
                       ELSE << "STRING", "godot::String" >>
          [] n = 5  -> << "STRING", "godot::String" >>
          [] n = 6  -> << "OPAQUE_HANDLE", "uint64_t" >>
          [] n = 7  -> << "PRIMITIVE", "intptr_t" >>
          [] n = 8  -> LET rule == self.config.custom_rules[_base_identifier(t.spelling)]
                       IN  << rule.kind, rule.exposed_spelling >>
          [] n = 9  -> << "WRAPPED_CLASS",
                          "godot::Ref<" \o self.known_wrapped[
                              _absolute_qualified_name(_base_identifier(t.spelling))] \o ">" >>
          [] n = 10 -> pointee_outcome
          [] n = 11 -> << "UNSUPPORTED", "<unsupported>" >>
          [] n = 12 -> << "UNSUPPORTED", "<unsupported>" >>

\* C1 (as stated): in both positions, for every type and configuration, the
\* classifier returns the outcome of the first rule that matches in the
\* order void, primitive scalar, pointer-to-const-char, pointer-to-non-const
\* char, standard string, handle<T>, void*, custom rule, known-wrapped
\* pointer/reference, other pointer, other reference, fallback.
C1_FirstMatchingRuleWins ==
    Classified =>
        \A n \in { FirstMatch(call.op, Self, call.t) } :
            << result.kind, result.exposed_spelling >> = RuleOutcome(n, call.op, Self, call.t)

\* the kinds the parameters of m classify to, in declaration order
ParamKinds(self, parameters) ==
    [ i \in 1..Len(parameters) |->
        _map_parameter(self, parameters[i].cpp_type,
                       IF parameters[i].name # "" THEN parameters[i].name
                       ELSE "arg" \o IntToStr(i)).kind ]

\* C2: map_method reports a method unsupported exactly when a parameter or
\* the return type classifies as UNSUPPORTED; the reason names the first
\* unsupported parameter in declaration order (its name or arg<i>, and its
\* native spelling) whatever follows it, or the return type's spelling when
\* every parameter is supported; a supported method has no reason and
\* carries its parameters' classifications in declaration order.
C2_MethodSupport ==
    call.op = "method" =>
        \A kinds \in { ParamKinds(Self, call.m.parameters) },
           rkind \in { _map_return(Self, call.m.return_type).kind } :
            LET ps  == call.m.parameters
                bad == { i \in DOMAIN kinds : kinds[i] = "UNSUPPORTED" }
            IN  /\ result.supported <=> (bad = {} /\ rkind # "UNSUPPORTED")
                /\ bad # {} =>
                     LET i == CHOOSE i \in bad : \A j \in bad : i <= j
                     IN  result.reason =
                             "Unsupported parameter '"
                                 \o (IF ps[i].name # "" THEN ps[i].name ELSE "arg" \o IntToStr(i))
                                 \o "' type '" \o ps[i].cpp_type.spelling \o "'"
                /\ (bad = {} /\ rkind = "UNSUPPORTED") =>
                     result.reason =
                         "Unsupported return type '" \o call.m.return_type.spelling \o "'"
                /\ ~result.supported => result.reason \notin {None, ""}
                /\ result.supported =>
                     /\ result.reason = None
                     /\ Len(result.exposed_params) = Len(ps)
                     /\ \A i \in DOMAIN kinds : result.exposed_params[i].mapping.kind = kinds[i]

\* C2 case: two unsupported parameters with different names ahead of an
\* unsupported return type; the reason names the first parameter.
C2_Witness ==
    /\ call.op = "method"
    /\ Len(call.m.parameters) = 2
    /\ call.m.parameters[1].name # call.m.parameters[2].name
    /\ \A kinds \in { ParamKinds(Self, call.m.parameters) } :
          kinds[1] = "UNSUPPORTED" /\ kinds[2] = "UNSUPPORTED"
    /\ _map_return(Self, call.m.return_type).kind = "UNSUPPORTED"
    /\ ~result.supported
    /\ result.reason = "Unsupported parameter 'v' type 'const Vec3 &'"

\* C7: an integral or floating scalar classifies, in both positions, as
\* PRIMITIVE exposed under its normalized spelling, with default "false"
\* for bool, "0" for the other integral types and "0.0" for floating types,
\* whatever the is_const / is_pointer / is_reference flags of the type.
C7_PrimitiveScalar ==
    (Classified /\ _strip_cv_and_class_kw(call.t.spelling) \in IntegralNames \cup FloatingNames) =>
        \A s \in { _strip_cv_and_class_kw(call.t.spelling) } :
            /\ result.kind = "PRIMITIVE"
            /\ result.exposed_spelling = s
            /\ result.native_spelling = s
            /\ result.default_exposed_value =
                   (IF s = "bool" THEN "false" ELSE IF s \in IntegralNames THEN "0" ELSE "0.0")
            /\ \A c \in BOOLEAN, p \in BOOLEAN, r \in BOOLEAN :
                  LET u == [ spelling |-> call.t.spelling, is_const |-> c,
                             is_pointer |-> p, is_reference |-> r ]
                  IN  result = IF call.op = "param"
                               THEN _map_parameter(Self, u, call.pname)
                               ELSE _map_return(Self, u)

\* C7 case: a qualified floating type returned with its pointer and
\* reference flags set.
C7_Witness ==
    /\ call.op = "return"
    /\ call.t.spelling = "const double"
    /\ call.t.is_pointer /\ call.t.is_reference
    /\ result.kind = "PRIMITIVE"
    /\ result.exposed_spelling = "double"
    /\ result.default_exposed_value = "0.0"

\* C8 (as stated): a pointer to const char, spelled `const char *` or
\* `char const *`, classifies as a parameter named n to STRING exposed as
\* godot::String with exactly two pre-call statements: a UTF-8 buffer built
\* from n, then a raw pointer read from that buffer; to_native is the
\* second temporary.
C8_ConstCharPtrParam ==
    (call.op = "param" /\ PointerToConstChar(call.t)) =>
        /\ result.kind = "STRING"
        /\ result.exposed_spelling = "godot::String"
        /\ result.pre_call_lines =
               << "godot::CharString __" \o call.pname \o "_utf8 = " \o call.pname \o ".utf8();",
                  "const char* __" \o call.pname \o "_cstr = __" \o call.pname
                      \o "_utf8.get_data();" >>
        /\ result.to_native_expr = "__" \o call.pname \o "_cstr"

\* C9 (as stated): a pointer to non-const char classifies in parameter and
\* in return position alike as a pointer-sized integer (PRIMITIVE), never
\* as STRING.
C9_WritableCharPtrNeverString ==
    (Classified /\ PointerToWritableChar(call.t)) =>
        /\ result.kind = "PRIMITIVE"
        /\ result.exposed_spelling = "intptr_t"

\* C9 (amended): a pointer to non-const char classifies in parameter
\* position as a pointer-sized integer (PRIMITIVE intptr_t); in return
\* position it classifies as STRING, decoded through String::utf8 like a
\* returned pointer to const char.
C9_WritableCharPtr ==
    (Classified /\ PointerToWritableChar(call.t)) =>
        IF call.op = "param"
        THEN /\ result.kind = "PRIMITIVE"
             /\ result.exposed_spelling = "intptr_t"
             /\ result.pre_call_lines = <<>>
        ELSE /\ result.kind = "STRING"
             /\ result.exposed_spelling = "godot::String"
             /\ result.from_native_expr = "godot::String::utf8({expr})"

\* C9 case: `char *` classified in return position.
C9_Witness ==
    /\ call.op = "return"
    /\ call.t.spelling = "char *"
    /\ PointerToWritableChar(call.t)
    /\ result.kind = "STRING"

\* C10 (as stated): with enable_std_string, every type whose base
\* identifier is std::string / std::basic_string<char...>, whatever its
\* const or reference qualification, classifies to STRING exposed as
\* godot::String in both positions, a parameter converting through a
\* std::string temporary; with the toggle off the rule does not apply.
C10_StdString ==
    (Classified /\ StdStringType(call.t)) =>
        IF config.enable_std_string
        THEN /\ result.kind = "STRING"
             /\ result.exposed_spelling = "godot::String"
             /\ call.op = "param" =>
                  /\ Len(result.pre_call_lines) = 2
                  /\ result.pre_call_lines[2] =
                         "std::string __" \o call.pname \o "_std(__" \o call.pname
                             \o "_utf8.get_data());"
                  /\ result.to_native_expr = "__" \o call.pname \o "_std"
        ELSE result.kind # "STRING"

(***************************************************************************)
(* Properties of overload disambiguation (specification SpecOverload)      *)
(***************************************************************************)

\* The group of the methods that overload one another: INSTANCE and
\* OPERATOR methods together, STATIC methods apart, by sanitized name;
\* constructors and destructors are in no group.
OverloadGroup(m) ==
    IF m.kind \in {"INSTANCE", "OPERATOR"} THEN << "instance+operator", sanitize_identifier(m.name) >>
    ELSE IF m.kind = "STATIC" THEN << "static", sanitize_identifier(m.name) >>
    ELSE << >>

OverloadGroups == [ i \in 1..Len(methods) |-> OverloadGroup(methods[i]) ]

SignatureKeys == [ i \in 1..Len(methods) |-> signature_key(methods[i]) ]

ExposedNames == [ i \in 1..Len(methods) |-> exposed_name(methods[i]) ]

\* C3: after _assign_overload_indices, every group of k >= 2 methods
\* carries the indices 0..k-1, each once, in ascending order of signature
\* key; a method alone in its group, a constructor and a destructor have
\* overload_index unset.
C3_OverloadIndices ==
    assigned =>
        \A groups \in { OverloadGroups }, sigs \in { SignatureKeys } :
            \A i \in 1..Len(methods) :
                LET peers == { j \in 1..Len(methods) : groups[j] = groups[i] }
                IN  IF groups[i] = << >> \/ Cardinality(peers) = 1
                    THEN methods[i].overload_index = NoIndex
                    ELSE /\ methods[i].overload_index \in 0..(Cardinality(peers) - 1)
                         /\ \A j \in peers \ {i} :
                              /\ methods[j].overload_index # methods[i].overload_index
                              /\ methods[i].overload_index < methods[j].overload_index
                                     => ~StrLess(sigs[j], sigs[i])

\* C3 case: an operator and an instance method with one sanitized name
\* were indexed as one group, next to a constructor left without index.
C3_Witness ==
    /\ assigned
    /\ \E i, j, k \in 1..Len(methods) :
          /\ methods[i].kind = "OPERATOR"
          /\ methods[j].kind = "INSTANCE"
          /\ methods[k].kind = "CONSTRUCTOR"
          /\ sanitize_identifier(methods[i].name) = sanitize_identifier(methods[j].name)
          /\ { methods[i].overload_index, methods[j].overload_index } = {0, 1}
          /\ methods[k].overload_index = NoIndex

\* C4 (as stated): for clang-distinct methods, every reordering of the
\* method list gives each method the overload_index it has, and running
\* _assign_overload_indices again changes no index.
C4_OrderIndependent ==
    (assigned /\ \A i, j \in 1..Len(methods) : i # j => methods[i].usr # methods[j].usr) =>
        /\ _assign_overload_indices(methods) = methods
        /\ \A pi \in Permutations(1..Len(methods)) :
              \A again \in { _assign_overload_indices([ i \in 1..Len(methods) |-> methods[pi[i]] ]) } :
                  \A i \in 1..Len(methods) :
                      again[i].overload_index = methods[pi[i]].overload_index

\* C5 (as stated): after disambiguation no two of the clang-distinct
\* methods of one call-kind group (instance+operator, or static) have the
\* same exposed name.
C5_ExposedNamesUnique ==
    (assigned /\ \A i, j \in 1..Len(methods) : i # j => methods[i].usr # methods[j].usr) =>
        \A groups \in { OverloadGroups }, names \in { ExposedNames } :
            \A i, j \in 1..Len(methods) :
                (i # j /\ groups[i] # << >> /\ groups[j] # << >> /\ groups[i][1] = groups[j][1])
                    => names[i] # names[j]

\* C6: a non-constructor method is exposed under its sanitized name when
\* overload_index is unset or 0 and under <name>_<index> when it is >= 1;
\* so among N >= 2 methods of one sanitized name, a static and b not,
\* max(a-1,0) + max(b-1,0) carry a suffix after disambiguation; and
\* set_origin(const Vec3 &), set_origin(double, double, double) are exposed
\* as set_origin and set_origin_1.
C6_ExposedName ==
    \A groups \in { OverloadGroups }, names \in { ExposedNames } :
        /\ \A i \in 1..Len(methods) :
              methods[i].kind # "CONSTRUCTOR" =>
                  names[i] = IF methods[i].overload_index \in {NoIndex, 0}
                             THEN sanitize_identifier(methods[i].name)
                             ELSE sanitize_identifier(methods[i].name) \o "_"
                                      \o IntToStr(methods[i].overload_index)
        /\ assigned =>
              \A i \in 1..Len(methods) :
                  LET same == { j \in 1..Len(methods) :
                                  groups[j] # << >> /\ groups[i] # << >> /\ groups[j][2] = groups[i][2] }
                      a == Cardinality({ j \in same : methods[j].kind = "STATIC" })
                      b == Cardinality({ j \in same : methods[j].kind # "STATIC" })
                      suffixed == { j \in same : names[j] # groups[j][2] }
                  IN  Cardinality(same) >= 2 =>
                          Cardinality(suffixed) = Max2(a - 1, 0) + Max2(b - 1, 0)
        /\ assigned =>
              \A i, j \in 1..Len(methods) :
                  LET peers == { k \in 1..Len(methods) : groups[k] = groups[i] }
                  IN  (methods[i].usr = "u:vec&" /\ methods[j].usr = "u:xyz" /\ peers = {i, j})
                          => names[i] = "set_origin" /\ names[j] = "set_origin_1"

\* C6 case: the two set_origin overloads next to a static SetOrigin.
C6_Witness ==
    /\ assigned
    /\ \E i, j, k \in 1..Len(methods) :
          /\ methods[i].usr = "u:vec&" /\ exposed_name(methods[i]) = "set_origin"
          /\ methods[j].usr = "u:xyz" /\ exposed_name(methods[j]) = "set_origin_1"
          /\ methods[k].kind = "STATIC" /\ exposed_name(methods[k]) = "set_origin"

(***************************************************************************)
(* Properties of the handle, wrapped-class and pointer rules               *)
(* (specification Spec)                                                    *)
(***************************************************************************)

\* A smart-handle type: handle<T> under its namespace and qualifiers.
IsHandleType(t) ==
    LET ss == RemoveSpaces(_strip_cv_and_class_kw(t.spelling))
    IN  \/ StartsWith(LowerStr(ss), "handle<")
        \/ StartsWith(LowerStr(ss), "opencascade::handle<")

\* The inner type T of handle<T>: the text between "<" and the next ">".
HandleInner(t) ==
    LET ss   == RemoveSpaces(t.spelling)
        rest == DropFirst(ss, Find(ss, "<"))
    IN  SubSeq(rest, 1, Find(rest, ">") - 1)

\* C11 (as stated): a handle<T> type classifies to OPAQUE_HANDLE in both
\* positions and the registry in to_native / from_native is keyed by the
\* inner type T, not by the handle type.
C11_HandleKeyedByInner ==
    (Classified /\ IsHandleType(call.t)) =>
        /\ result.kind = "OPAQUE_HANDLE"
        /\ \A inner \in { HandleInner(call.t) } :
              IF call.op = "param"
              THEN result.to_native_expr = "*OpaqueHandleRegistry<" \o inner \o ">::get({var})"
              ELSE StartsWith(result.from_native_expr,
                              "OpaqueHandleRegistry<" \o inner \o ">::put(")

\* C11 (amended): a handle<T> type classifies to OPAQUE_HANDLE exposed as
\* uint64_t in both positions; the registry in to_native / from_native is
\* keyed by the canonical handle type opencascade::handle<T>, the same for
\* every spelling of the handle around one inner type T.
C11_HandleKeyedByCanonicalHandle ==
    (Classified /\ IsHandleType(call.t)) =>
        /\ result.kind = "OPAQUE_HANDLE"
        /\ result.exposed_spelling = "uint64_t"
        /\ \A key \in { "opencascade::handle<" \o HandleInner(call.t) \o ">" } :
              IF call.op = "param"
              THEN /\ result.to_native_expr = "*OpaqueHandleRegistry<" \o key \o ">::get({var})"
                   /\ result.from_native_expr = None
              ELSE /\ result.from_native_expr =
                          "OpaqueHandleRegistry<" \o key \o ">::put(new " \o key \o "({expr}))"
                   /\ result.to_native_expr = None

\* C11 case: a const reference to Handle<Geom_Curve> classified as a
\* parameter through the registry of opencascade::handle<Geom_Curve>.
C11_Witness ==
    /\ call.op = "param"
    /\ call.t.spelling = "const Handle<Geom_Curve> &"
    /\ result.kind = "OPAQUE_HANDLE"
    /\ result.to_native_expr =
           "*OpaqueHandleRegistry<opencascade::handle<Geom_Curve>>::get({var})"

\* t is a pointer or a reference to a class of the Known-Wrapped Registry
\* that none of the rules before the known-wrapped rule applies to.
WrappedIndirection(op, self, t) ==
    /\ t.is_pointer \/ t.is_reference
    /\ _absolute_qualified_name(_base_identifier(t.spelling)) \in DOMAIN self.known_wrapped
    /\ \A k \in 1..8 : ~RuleMatches(k, op, self, t)

\* The wrapper registered for the class t points or refers to.
WrapperOf(self, t) ==
    self.known_wrapped[_absolute_qualified_name(_base_identifier(t.spelling))]

\* The bridge of a wrapped parameter: the native pointer behind the wrapper
\* reached through __ocgd_get_impl, dereferenced for a reference parameter.
ImplAccessorBridge(t) ==
    (IF t.is_reference THEN "*" ELSE "")
        \o "reinterpret_cast<" \o _absolute_qualified_name(_base_identifier(t.spelling))
        \o "*>(__ocgd_get_impl({var}.ptr()))"

WrappedParamBridge(self, t, r) ==
    /\ r.kind = "WRAPPED_CLASS"
    /\ r.exposed_spelling = "godot::Ref<" \o WrapperOf(self, t) \o ">"
    /\ r.to_native_expr = ImplAccessorBridge(t)
    /\ r.pre_call_lines = <<>>

\* C12 (as stated): a parameter that is a pointer or a reference to a class
\* of the Known-Wrapped Registry, no earlier rule matching, is classified
\* WRAPPED_CLASS, exposed as a handle to the class's wrapper and converted
\* through the impl accessor, dereferenced exactly for a reference.
C12_WrappedParam ==
    (call.op = "param" /\ WrappedIndirection("param", Self, call.t)) =>
        WrappedParamBridge(Self, call.t, result)

\* C12 (amended): the same while the configuration prefers the wrapped-object
\* bridge for parameters; with the preference off the parameter is never
\* WRAPPED_CLASS: a pointer takes the outcome of the other-pointer rule and a
\* reference is UNSUPPORTED.
C12_WrappedParamWhenBridged ==
    (call.op = "param" /\ WrappedIndirection("param", Self, call.t)) =>
        IF config.use_wrapped_param_bridge
        THEN WrappedParamBridge(Self, call.t, result)
        ELSE /\ result.kind # "WRAPPED_CLASS"
             /\ << result.kind, result.exposed_spelling >>
                    = RuleOutcome(IF call.t.is_pointer THEN 10 ELSE 11, "param", Self, call.t)

C12_Witness ==
    /\ call.op = "param"
    /\ call.t = from_spelling("const Vec3 &")
    /\ config.use_wrapped_param_bridge
    /\ config.custom_rules = <<>>
    /\ result.kind = "WRAPPED_CLASS"
    /\ result.exposed_spelling = "godot::Ref<W_Vec3>"
    /\ result.to_native_expr = "*reinterpret_cast<::Vec3*>(__ocgd_get_impl({var}.ptr()))"

\* The two classifications of the type of the call that has just returned:
\* the one the call returned and the one of the other position.
AsParameter == IF call.op = "param" THEN result ELSE _map_parameter(Self, call.t, "v")
AsReturn == IF call.op = "return" THEN result ELSE _map_return(Self, call.t)

\* The factory that wraps a returned native pointer without owning it.
ImplFactory == "__ocgd_make_from_impl(reinterpret_cast<void*>({expr}))"

WrappedBothWays(self, t, p, r) ==
    /\ WrappedParamBridge(self, t, p)
    /\ r.kind = "WRAPPED_CLASS"
    /\ r.exposed_spelling = p.exposed_spelling
    /\ r.from_native_expr = ImplFactory
    /\ r.default_exposed_value = r.exposed_spelling \o "()"

\* C13 (as stated): for every pointer or reference type whose base identifier
\* is in the Known-Wrapped Registry and every configuration, the parameter
\* and the return mapping are both WRAPPED_CLASS with one exposed spelling,
\* the parameter through the impl accessor, the return through the factory.
C13_WrappedBothDirections ==
    ( /\ Classified
      /\ call.t.is_pointer \/ call.t.is_reference
      /\ _absolute_qualified_name(_base_identifier(call.t.spelling)) \in DOMAIN known_wrapped ) =>
        \A p \in { AsParameter }, r \in { AsReturn } : WrappedBothWays(Self, call.t, p, r)

\* C13 (amended): for a pointer to a class of the Known-Wrapped Registry that
\* no earlier rule applies to, the return is WRAPPED_CLASS through the
\* factory, and while the configuration prefers the parameter bridge the
\* parameter is WRAPPED_CLASS with the same exposed spelling through the impl
\* accessor; with the preference off the parameter is not WRAPPED_CLASS.  A
\* reference (not a pointer) to such a class is bridged as a parameter only:
\* its return is UNSUPPORTED.
C13_WrappedPointerBothDirections ==
    (Classified /\ WrappedIndirection(call.op, Self, call.t)) =>
        \A p \in { AsParameter }, r \in { AsReturn } :
            /\ (call.t.is_pointer /\ config.use_wrapped_param_bridge)
                    => WrappedBothWays(Self, call.t, p, r)
            /\ call.t.is_pointer
                    => /\ r.kind = "WRAPPED_CLASS"
                       /\ r.exposed_spelling = "godot::Ref<" \o WrapperOf(Self, call.t) \o ">"
                       /\ r.from_native_expr = ImplFactory
            /\ ~call.t.is_pointer => r.kind = "UNSUPPORTED"
            /\ p.kind = "WRAPPED_CLASS" <=> config.use_wrapped_param_bridge

C13_Witness ==
    /\ call.op = "return"
    /\ call.t = from_spelling("Vec3 *")
    /\ config.use_wrapped_param_bridge
    /\ config.custom_rules = <<>>
    /\ result.kind = "WRAPPED_CLASS"
    /\ result.from_native_expr = ImplFactory
    /\ AsParameter.kind = "WRAPPED_CLASS"
    /\ AsParameter.exposed_spelling = result.exposed_spelling

\* t is a pointer that none of the rules before the other-pointer rule
\* applies to, in position op.
OtherPointer(op, self, t) ==
    /\ t.is_pointer
    /\ \A k \in 1..9 : ~RuleMatches(k, op, self, t)

\* The pointee of t is a primitive scalar.
PointeeIsScalar(t) ==
    _base_identifier(t.spelling) \in IntegralNames \cup FloatingNames

\* The registry named in the conversion expression of classification r.
RegistryPrefix(key) == "OpaqueHandleRegistry<" \o key \o ">::"

KeyedBy(op, r, key) ==
    IF op = "param"
    THEN r.to_native_expr # None /\ Contains(r.to_native_expr, RegistryPrefix(key))
    ELSE r.from_native_expr # None /\ Contains(r.from_native_expr, RegistryPrefix(key))

\* C14: a pointer matched by no earlier rule is classified, as a parameter and
\* as a return alike, PRIMITIVE as a pointer-sized integer when its pointee is
\* a primitive scalar, whether opaque handles are enabled or not; otherwise
\* OPAQUE_HANDLE keyed by the pointee's base identifier when opaque handles
\* are enabled and UNSUPPORTED when they are disabled.
C14_OtherPointer ==
    (Classified /\ OtherPointer(call.op, Self, call.t)) =>
        IF PointeeIsScalar(call.t)
        THEN /\ result.kind = "PRIMITIVE"
             /\ result.exposed_spelling = "intptr_t"
        ELSE IF config.enable_opaque_handles
        THEN /\ result.kind = "OPAQUE_HANDLE"
             /\ result.exposed_spelling = "uint64_t"
             /\ KeyedBy(call.op, result, _base_identifier(call.t.spelling))
        ELSE result.kind = "UNSUPPORTED"

\* C14 restricted to what the code does: the same, except that a returned
\* pointer to a primitive scalar is UNSUPPORTED while opaque handles are
\* disabled.
C14_OtherPointerAsCoded ==
    (Classified /\ OtherPointer(call.op, Self, call.t)) =>
        IF PointeeIsScalar(call.t) /\ (call.op = "param" \/ config.enable_opaque_handles)
        THEN /\ result.kind = "PRIMITIVE"
             /\ result.exposed_spelling = "intptr_t"
        ELSE IF config.enable_opaque_handles
        THEN /\ result.kind = "OPAQUE_HANDLE"
             /\ result.exposed_spelling = "uint64_t"
             /\ KeyedBy(call.op, result, _base_identifier(call.t.spelling))
        ELSE result.kind = "UNSUPPORTED"

\* The template argument of the registry an expression names.
RegistryKey(expr) ==
    LET rest == DropFirst(expr, Find(expr, "OpaqueHandleRegistry<") + Len("OpaqueHandleRegistry<") - 1)
    IN  SubSeq(rest, 1, Find(rest, ">::") - 1)

NamesRegistry(expr) == expr # None /\ Contains(expr, "OpaqueHandleRegistry<")

\* C15 (as stated): a pointer type classified OPAQUE_HANDLE has the default
\* exposed value 0 in parameter and in return position, and the registry key
\* of the parameter's to_native is the key of the return's from_native.
C15_OpaqueDefaultAndKey ==
    (Classified /\ call.t.is_pointer /\ result.kind = "OPAQUE_HANDLE") =>
        \A p \in { AsParameter }, r \in { AsReturn } :
            /\ result.default_exposed_value = "0"
            /\ NamesRegistry(p.to_native_expr)
            /\ NamesRegistry(r.from_native_expr)
            /\ RegistryKey(p.to_native_expr) = RegistryKey(r.from_native_expr)

\* C15 (amended): a pointer type classified OPAQUE_HANDLE in return position
\* has the default exposed value 0; classified OPAQUE_HANDLE in parameter
\* position it carries no default value; and whenever both positions are
\* OPAQUE_HANDLE the get of the parameter and the put of the return name the
\* same registry key.
C15_OpaqueReturnDefaultAndKey ==
    (Classified /\ call.t.is_pointer /\ result.kind = "OPAQUE_HANDLE") =>
        \A p \in { AsParameter }, r \in { AsReturn } :
            /\ call.op = "return" => result.default_exposed_value = "0"
            /\ call.op = "param" => result.default_exposed_value = None
            /\ (p.kind = "OPAQUE_HANDLE" /\ r.kind = "OPAQUE_HANDLE") =>
                  /\ NamesRegistry(p.to_native_expr)
                  /\ NamesRegistry(r.from_native_expr)
                  /\ RegistryKey(p.to_native_expr) = RegistryKey(r.from_native_expr)
                  /\ p.exposed_spelling = r.exposed_spelling

C15_Witness ==
    /\ call.op = "return"
    /\ call.t = from_spelling("Foo *")
    /\ result.kind = "OPAQUE_HANDLE"
    /\ result.default_exposed_value = "0"
    /\ result.from_native_expr = "OpaqueHandleRegistry<Foo>::put({expr})"
    /\ AsParameter.to_native_expr = "OpaqueHandleRegistry<Foo>::get({var})"

\* The type a pointer type points at: its spelling without cv-qualifiers and
\* class keywords, less the last "*".
Pointee(t) ==
    LET s == _strip_cv_and_class_kw(t.spelling)
    IN  IF EndsWith(s, "*") THEN RStrip(SubSeq(s, 1, Len(s) - 1)) ELSE s

\* The registry key of a classification in position op.
KeyOf(op, r) ==
    RegistryKey(IF op = "param" THEN r.to_native_expr ELSE r.from_native_expr)

ClassifyAs(op, self, t) ==
    IF op = "param" THEN _map_parameter(self, t, "v") ELSE _map_return(self, t)

\* C16: registry keys are injective on pointee types: two pointer types
\* classified OPAQUE_HANDLE whose pointee types differ never get the same
\* registry key.
C16_KeysInjective ==
    (Classified /\ call.t.is_pointer /\ result.kind = "OPAQUE_HANDLE") =>
        \A u \in CppTypes :
            \A ru \in { ClassifyAs(call.op, Self, u) } :
                (u.is_pointer /\ ru.kind = "OPAQUE_HANDLE" /\ Pointee(u) # Pointee(call.t))
                    => KeyOf(call.op, ru) # KeyOf(call.op, result)

\* What does hold of the keys: two pointer types classified OPAQUE_HANDLE get
\* the same key exactly when their base identifiers are the same.
C16_KeysFollowBaseIdentifier ==
    (Classified /\ call.t.is_pointer /\ result.kind = "OPAQUE_HANDLE") =>
        \A u \in CppTypes :
            \A ru \in { ClassifyAs(call.op, Self, u) } :
                (u.is_pointer /\ ru.kind = "OPAQUE_HANDLE")
                    => (KeyOf(call.op, ru) = KeyOf(call.op, result)
                            <=> _base_identifier(u.spelling) = _base_identifier(call.t.spelling))

(***************************************************************************)
(* Properties of the lowered-method record (specification Spec)            *)
(***************************************************************************)

IsIdentCh(c) == IsAlphaCh(c) \/ c \in {"0", "1", "2", "3", "4", "5", "6", "7", "8", "9", "_"}

\* The identifier of s that starts at position i.
IdentAt(s, i) ==
    LET ends == { j \in i..Len(s) : \A k \in i..j : IsIdentCh(CharAt(s, k)) }
    IN  SubSeq(s, i, CHOOSE j \in ends : \A k \in ends : k <= j)

\* The conversion temporaries of parameter name that s names: the
\* identifiers of s that begin with __<name>_ .
TemporariesIn(s, name) ==
    LET pre == "__" \o name \o "_"
    IN  { IdentAt(s, i) : i \in { i \in 1..(Len(s) - Len(pre) + 1) :
                                    /\ SubSeq(s, i, i + Len(pre) - 1) = pre
                                    /\ i = 1 \/ ~IsIdentCh(CharAt(s, i - 1)) } }

\* Statement stmt declares temporary x; stmt reads x.
Declares(stmt, x) ==
    \/ Contains(stmt, " " \o x \o " = ")
    \/ Contains(stmt, " " \o x \o "(")
Reads(stmt, x) == Contains(stmt, x) /\ ~Declares(stmt, x)

\* The pre-call statements of the parameters, left to right.
RECURSIVE ParamPreCallLines(_)
ParamPreCallLines(exposed_params) ==
    IF exposed_params = <<>> THEN <<>>
    ELSE Head(exposed_params).mapping.pre_call_lines \o ParamPreCallLines(Tail(exposed_params))

\* Every temporary the native arguments name is declared in lines, and every
\* statement of lines that reads a temporary of a parameter comes after the
\* statement that declares it.
DeclaredBeforeUse(lines, exposed_params, native_args) ==
    /\ \A i \in 1..Len(exposed_params) :
          \A x \in TemporariesIn(native_args[i], exposed_params[i].name) :
              \E j \in 1..Len(lines) : Declares(lines[j], x)
    /\ \A k \in 1..Len(lines), i \in 1..Len(exposed_params) :
          \A x \in TemporariesIn(lines[k], exposed_params[i].name) :
              Reads(lines[k], x) => \E j \in 1..(k - 1) : Declares(lines[j], x)

\* C17: the aggregate pre-call list of a supported method is the pre-call
\* statements of its parameters, left to right, followed by those of the
\* return mapping; every temporary named in a parameter's to_native
\* expression is declared by a statement of the list, and every temporary is
\* declared before the statement that reads it, in the aggregate list and
\* in the statements the emitter writes ahead of the call.
C17_PreCallOrder ==
    /\ (call.op = "method" /\ result.supported) =>
          /\ Len(result.exposed_params) = Len(call.m.parameters)
          /\ \A i \in 1..Len(call.m.parameters) :
                /\ result.exposed_params[i].name = ParamName(call.m.parameters[i], i)
                /\ result.exposed_params[i].mapping
                      = _map_parameter(Self, call.m.parameters[i].cpp_type,
                                       ParamName(call.m.parameters[i], i))
          /\ result.exposed_return = _map_return(Self, call.m.return_type)
          /\ result.pre_call_lines
                = ParamPreCallLines(result.exposed_params) \o result.exposed_return.pre_call_lines
          /\ DeclaredBeforeUse(result.pre_call_lines, result.exposed_params,
                               [ i \in 1..Len(result.exposed_params) |->
                                   result.exposed_params[i].mapping.to_native_expr ])
    /\ call.op = "param" =>
          DeclaredBeforeUse(result.pre_call_lines,
                            << [ name |-> call.pname, mapping |-> result ] >>,
                            << result.to_native_expr >>)
    /\ call.op = "call_data" =>
          DeclaredBeforeUse(result.pre_lines \o call.mm.exposed_return.pre_call_lines,
                            call.mm.exposed_params, result.native_args)

C17_Witness ==
    /\ call.op = "call_data"
    /\ Len(call.m.parameters) = 2
    /\ call.m.parameters[2].cpp_type = from_spelling("char const *")
    /\ result.native_args[2] = "__s_cstr"
    /\ call.mm.pre_call_lines
          = << "godot::CharString __s_utf8 = s.utf8();",
               "const char* __s_cstr = __s_utf8.get_data();",
               "int __n = 0;" >>

\* C18 (as stated): a record map_method reports unsupported, by a parameter
\* or by the return type, has an empty aggregate pre-call list and neither
\* its exposed name nor its class wrapper name populated.
C18_UnsupportedCarriesNothing ==
    (call.op = "method" /\ ~result.supported) =>
        /\ result.pre_call_lines = <<>>
        /\ result.exposed_name \in {None, ""}
        /\ result.cls_wrapper_name \in {None, ""}

\* C18 (amended): every record, supported or not, carries the method's
\* exposed name and overload index and the class's wrapper name.  A record
\* unsupported by a parameter has no exposed parameters, the void mapping as
\* its return and empty statement lists; a record unsupported by the return
\* type carries every parameter's mapping, the unsupported return mapping and
\* the parameters' pre-call statements, left to right, without the return's.
C18_UnsupportedRecord ==
    call.op = "method" =>
        /\ result.exposed_name = exposed_name(call.m)
        /\ result.overload_index = call.m.overload_index
        /\ result.cls_wrapper_name = WrapperPrefix \o "Box"
        /\ ~result.supported =>
              \A kinds \in { ParamKinds(Self, call.m.parameters) } :
                  IF \E i \in DOMAIN kinds : kinds[i] = "UNSUPPORTED"
                  THEN /\ result.exposed_params = <<>>
                       /\ result.exposed_return = _void_mapping
                       /\ result.pre_call_lines = <<>>
                       /\ result.post_call_lines = <<>>
                  ELSE /\ Len(result.exposed_params) = Len(call.m.parameters)
                       /\ result.exposed_return.kind = "UNSUPPORTED"
                       /\ result.pre_call_lines = ParamPreCallLines(result.exposed_params)

C18_Witness ==
    /\ call.op = "method"
    /\ ~result.supported
    /\ result.reason = "Unsupported return type 'Foo'"
    /\ result.exposed_name = "set_origin"
    /\ result.cls_wrapper_name = "W_Box"
    /\ result.pre_call_lines = << "godot::CharString __s_utf8 = s.utf8();",
                                  "const char* __s_cstr = __s_utf8.get_data();" >>

(***************************************************************************)
(* Conversion fields of a classification (specification Spec)             *)
(***************************************************************************)

\* The conversion of the position classified: to_native of a parameter,
\* from_native of a return.
ConversionOf(op, r) == IF op = "param" THEN r.to_native_expr ELSE r.from_native_expr

\* C19 (as stated): the conversion of a classification is absent exactly when
\* its kind is VOID or UNSUPPORTED, for every type and configuration, custom
\* rules included.
C19_ConversionAbsentIffVoidOrUnsupported ==
    Classified =>
        (ConversionOf(call.op, result) = None <=> result.kind \in {"VOID", "UNSUPPORTED"})

\* C19 (amended): the conversion of a classification is absent exactly when
\* its kind is VOID or UNSUPPORTED, or the type is a primitive scalar (passed
\* and returned as it is), or a custom rule that leaves that conversion out
\* decided it; a VOID or UNSUPPORTED classification never has a conversion.
C19_ConversionAbsent ==
    Classified =>
        \A n \in { FirstMatch(call.op, Self, call.t) } :
            /\ ConversionOf(call.op, result) = None <=>
                  \/ result.kind \in {"VOID", "UNSUPPORTED"}
                  \/ n = 2
                  \/ /\ n = 8
                     /\ ConversionOf(call.op,
                            config.custom_rules[_base_identifier(call.t.spelling)]) = None
            /\ n = 2 => (result.kind = "PRIMITIVE" /\ result.to_native_expr = None
                            /\ result.from_native_expr = None)
            /\ n # 8 => (IF call.op = "param" THEN result.from_native_expr = None
                         ELSE result.to_native_expr = None)
            /\ call.op = "param" => result.kind # "VOID"

C19_Witness ==
    /\ call.op = "param"
    /\ call.t = from_spelling("int")
    /\ result.kind = "PRIMITIVE"
    /\ result.exposed_spelling = "int"
    /\ result.to_native_expr = None

(***************************************************************************)
(* Frame of lowering (specification SpecLowering)                          *)
(***************************************************************************)

MaxHeaders == 2

\* ClassInfo as the parser fills it: header, cursor_usr, bases and methods
\* beside the name, the namespaces and the prefix
ParsedClass(ci, header, cursor_usr, bases, ms) ==
    [ name |-> ci.name, namespaces |-> ci.namespaces, wrapper_prefix |-> ci.wrapper_prefix,
      header |-> header, cursor_usr |-> cursor_usr, bases |-> bases, methods |-> ms ]

\* key = usr or ci.qualified_name   /   key = c.cursor_usr or c.qualified_name
ClassKey(c) == IF c.cursor_usr # "" THEN c.cursor_usr ELSE qualified_name(c)

\* a merge that appends only the methods the record does not hold yet
merge_class_unique(cm, c, extend_bases) ==
    IF \E i \in 1..Len(cm) : ClassKey(cm[i]) = ClassKey(c)
    THEN LET i == CHOOSE k \in 1..Len(cm) : ClassKey(cm[k]) = ClassKey(c)
             held == { signature_key(cm[i].methods[j]) : j \in 1..Len(cm[i].methods) }
             IsNew(m) == signature_key(m) \notin held
         IN  [ cm EXCEPT ![i] =
                 [ @ EXCEPT !.methods = @ \o SelectSeq(c.methods, IsNew),
                            !.bases = IF extend_bases THEN @ \o c.bases ELSE @,
                            !.header = IF @ = "" /\ c.header # "" THEN c.header ELSE @ ] ]
    ELSE Append(cm, c)

\* one round of the merge loop on class_map (its values, in insertion
\* order).  collect_classes_from_headers extends the bases too;
\* _collect_class_decls does not.
merge_class(cm, c, extend_bases) ==
    IF \E i \in 1..Len(cm) : ClassKey(cm[i]) = ClassKey(c)
    THEN LET i == CHOOSE k \in 1..Len(cm) : ClassKey(cm[k]) = ClassKey(c)
         IN  [ cm EXCEPT ![i] =
                 [ @ EXCEPT !.methods = @ \o c.methods,
                            !.bases = IF extend_bases THEN @ \o c.bases ELSE @,
                            !.header = IF @ = "" /\ c.header # "" THEN c.header ELSE @ ] ]
    ELSE Append(cm, c)

\* the merge loop over the classes cs
RECURSIVE MergeAll(_, _, _)
MergeAll(cm, cs, extend_bases) ==
    IF Len(cs) = 0 THEN cm
    ELSE MergeAll(merge_class(cm, Head(cs), extend_bases), Tail(cs), extend_bases)

\* the classes left with the overload indices they came with
AssignNone(cm) == cm

\* for ci in class_map.values(): _assign_overload_indices(ci)
AssignAll(cm) ==
    [ i \in 1..Len(cm) |-> [ cm[i] EXCEPT !.methods = _assign_overload_indices(@) ] ]

\* sorted(class_map.values(), key=lambda c: (c.namespaces, c.name)); sorted
\* is stable and compares the lists of namespaces item by item
RECURSIVE SortedClasses(_)
SortedClasses(cm) ==
    LET RECURSIVE ListLess(_, _)
        ListLess(a, b) ==
            IF Len(b) = 0 THEN FALSE
            ELSE IF Len(a) = 0 THEN TRUE
            ELSE IF a[1] = b[1] THEN ListLess(Tail(a), Tail(b))
            ELSE StrLess(a[1], b[1])
        KeyLess(c, d) ==
            IF c.namespaces = d.namespaces THEN StrLess(c.name, d.name)
            ELSE ListLess(c.namespaces, d.namespaces)
        RECURSIVE Insert(_, _)
        Insert(sorted, c) ==
            IF Len(sorted) = 0 THEN <<c>>
            ELSE IF KeyLess(c, sorted[1]) THEN <<c>> \o sorted
            ELSE <<sorted[1]>> \o Insert(Tail(sorted), c)
    IN  IF Len(cm) = 0 THEN <<>>
        ELSE Insert(SortedClasses(SubSeq(cm, 1, Len(cm) - 1)), cm[Len(cm)])

\* _collect_class_decls on a translation unit, given the class declarations
\* visit() keeps, in the order it meets them
_collect_class_decls(tu) == SortedClasses(AssignAll(MergeAll(<<>>, tu, FALSE)))

\* a second constructor of Box
BoxCtorXyz ==
    MethodInfo("Box", from_spelling("void"),
               <<ParameterInfo("x", from_spelling("double")),
                 ParameterInfo("y", from_spelling("double")),
                 ParameterInfo("z", from_spelling("double"))>>, FALSE, "CONSTRUCTOR", "u:ctor3")

\* a const method of Box that returns a C string
Label ==
    MethodInfo("label", from_spelling("const char *"), <<>>, TRUE, "INSTANCE", "u:label")

\* the translation units of the headers of a run, each the declarations
\* visit() keeps: Box declared in several headers (with and without a USR
\* and a header path), Vec3, and a Box of namespace geom
TranslationUnits ==
    LET Box(header, ms) == ParsedClass(BoxClass, header, "c:@S@Box", <<>>, ms)
        Anon(header, ms) == ParsedClass(BoxClass, header, "", <<"Shape">>, ms)
        Vec3 == ParsedClass(Vec3Class, "vec3.h", "c:@S@Vec3", <<>>, <<>>)
        GeomBox == ParsedClass(ClassInfo("Box", <<"geom">>, WrapperPrefix), "geom/box.h",
                               "c:@N@geom@S@Box", <<"Shape">>, <<BoxCtor, BoxCtorXyz, DataOf>>)
    IN  { << Box("box.h", <<BoxCtor, SetOriginVec>>) >>,
          << Box("box_impl.h", <<SetOriginXyz, DataOf, Label>>) >>,
          << Box("", <<SetOriginVec>>), Vec3 >>,
          << Anon("", <<SetOriginXyz, SetOriginStatic>>), Anon("box_fwd.h", <<SetOriginVec>>) >>,
          << GeomBox, Vec3 >> }

InitGenerate ==
    /\ pc = "config"
    /\ config \in [ enable_opaque_handles : BOOLEAN, use_wrapped_param_bridge : { TRUE },
                    enable_std_string : { TRUE }, custom_rules : { <<>> } ]
    /\ known_wrapped = <<>>
    /\ call = NoCall
    /\ result = None
    /\ ClassIdle
    /\ OtherIdle

\* one round of the loop over the headers: parse_translation_unit,
\* _collect_class_decls and the merge into class_map
ParseHeader(tu) ==
    /\ classes = None
    /\ Len(headers) < MaxHeaders
    /\ headers' = Append(headers, tu)
    /\ class_map' = MergeAll(class_map, _collect_class_decls(tu), TRUE)
    /\ UNCHANGED << mapperVars, classVars, classes, emitted, wrapperVars, fileVars >>

\* the end of collect_classes_from_headers: the overload indices are
\* assigned again on the merged classes, and the classes are returned sorted
\* (main stops before that when there is no header)
ReturnClasses ==
    /\ classes = None
    /\ Len(headers) > 0
    /\ \E cm \in { AssignAll(class_map) } :
          /\ class_map' = cm
          /\ classes' = SortedClasses(cm)
    /\ UNCHANGED << mapperVars, classVars, headers, emitted, wrapperVars, fileVars >>

\* dataclass VariantEmitterConfig (the template names aside)
VariantEmitterConfig(emit_constructor_wrappers, emit_static_methods, emit_empty_classes) ==
    [ emit_constructor_wrappers |-> emit_constructor_wrappers,
      emit_static_methods       |-> emit_static_methods,
      emit_empty_classes        |-> emit_empty_classes ]

\* the name under which _render_header, _bind_methods and _render_source
\* expose the construct wrapper of ctor
construct_name(ctor) ==
    "construct" \o (IF ctor.overload_index # NoIndex /\ ctor.overload_index > 0
                    THEN "_" \o IntToStr(ctor.overload_index) ELSE "")

\* the statements of an instance-method wrapper after the impl check:
\* pre-call conversions of the parameters, pre-call lines of the return
\* mapping, then the native call with its return conversion
InstanceCallLines(mm) ==
    LET data      == build_param_call_data(mm.exposed_params)
        Indent(ls) == [ k \in 1..Len(ls) |-> "    " \o ls[k] ]
        call_expr == "impl->" \o mm.method_name \o "(" \o Join(", ", data.native_args) \o ")"
        ret_map   == mm.exposed_return
        RECURSIVE SplitLines(_)
        SplitLines(text) ==
            IF Find(text, "\n") = 0 THEN (IF text = "" THEN <<>> ELSE <<text>>)
            ELSE << SubSeq(text, 1, Find(text, "\n") - 1) >>
                 \o SplitLines(DropFirst(text, Find(text, "\n")))
    IN  Indent(data.pre_lines) \o Indent(ret_map.pre_call_lines)
        \o (IF ret_map.kind = "VOID" THEN << "    " \o call_expr \o ";" >>
            ELSE IF ret_map.from_native_expr \notin {None, ""}
            THEN IF StartsWith(LStrip(ret_map.from_native_expr), "{")
                 THEN Indent(SplitLines(Replace(ret_map.from_native_expr, "{expr}", call_expr)))
                 ELSE << "    return "
                         \o Replace(ret_map.from_native_expr, "{expr}", call_expr) \o ";" >>
            ELSE << "    return " \o call_expr \o ";" >>)

\* the impl check of an instance-method wrapper
ImplCheck(mm) ==
    IF mm.exposed_return.kind # "VOID"
    THEN << "    if (!impl) {",
            "        return "
               \o (IF mm.exposed_return.default_exposed_value \notin {None, ""}
                   THEN mm.exposed_return.default_exposed_value ELSE "{}") \o ";",
            "    }" >>
    ELSE << "    if (!impl) {", "        return;", "    }" >>

\* an instance-method wrapper that converts its arguments before it looks
\* at impl
render_instance_method_check_late(mm) ==
    LET data == build_param_call_data(mm.exposed_params)
    IN  [ k \in 1..Len(data.pre_lines) |-> "    " \o data.pre_lines[k] ]
        \o ImplCheck(mm) \o InstanceCallLines(mm)

\* _render_source: the body of the wrapper of the instance method mm
render_instance_method(mm) == ImplCheck(mm) \o InstanceCallLines(mm)

\* GodotVariantEmitter._emit_class, given mm = mapper.map_method(ci, m) of
\* every method the loop maps: the lists handed to _render_header and
\* _render_source, and whether the two files are written
EmitMapped(cfg, self, ci, mapped) ==
    LET ms == ci.methods
        idx == [ j \in 1..Len(ms) |-> j ]
        Instance(j) == /\ j \in DOMAIN mapped
                       /\ mapped[j].supported
                       /\ ~(ms[j].kind = "STATIC" /\ cfg.emit_static_methods)
                       /\ ms[j].kind \in {"INSTANCE", "OPERATOR"}
        Static(j) == /\ j \in DOMAIN mapped
                     /\ mapped[j].supported
                     /\ ms[j].kind = "STATIC" /\ cfg.emit_static_methods
        Ctor(j) == /\ cfg.emit_constructor_wrappers
                   /\ ms[j].kind = "CONSTRUCTOR"
                   /\ ~MapParams(self, ms[j].parameters).failed
        inst == SelectSeq(idx, Instance)
        stat == SelectSeq(idx, Static)
        ctor == SelectSeq(idx, Ctor)
    IN  [ key             |-> ClassKey(ci),
          wrapper_name    |-> wrapper_name(ci),
          mapped          |-> mapped,
          mapped_instance |-> [ k \in 1..Len(inst) |-> mapped[inst[k]] ],
          mapped_static   |-> [ k \in 1..Len(stat) |-> mapped[stat[k]] ],
          mapped_ctors    |-> [ k \in 1..Len(ctor) |-> construct_name(ms[ctor[k]]) ],
          instance_source |-> [ k \in 1..Len(inst) |-> render_instance_method(mapped[inst[k]]) ],
          written         |-> (Len(inst) > 0 \/ Len(stat) > 0 \/ Len(ctor) > 0
                                 \/ cfg.emit_empty_classes) ]

\* _emit_class dropping the whole class when one of its methods is unsupported
_emit_class_rejecting_class(cfg, self, ci) ==
    CHOOSE out \in
        { IF \A j \in DOMAIN mapped : mapped[j].supported
          THEN EmitMapped(cfg, self, ci, mapped)
          ELSE [ EmitMapped(cfg, self, ci, mapped) EXCEPT
                   !.mapped_instance = <<>>, !.mapped_static = <<>>, !.written = FALSE ] :
            mapped \in { [ j \in { i \in 1..Len(ci.methods) :
                                       ci.methods[i].kind \notin {"CONSTRUCTOR", "DESTRUCTOR"} } |->
                             map_method(self, ci, ci.methods[j]) ] } } : TRUE

_emit_class(cfg, self, ci) ==
    CHOOSE out \in
        { EmitMapped(cfg, self, ci, mapped) :
            mapped \in { [ j \in { i \in 1..Len(ci.methods) :
                                       ci.methods[i].kind \notin {"CONSTRUCTOR", "DESTRUCTOR"} } |->
                             map_method(self, ci, ci.methods[j]) ] } } : TRUE

\* main builds the mapper from the classes and the emitter around it
MakeEmitter(cfg) ==
    /\ classes # None
    /\ pc = "config"
    /\ known_wrapped' = from_classes({ classes[i] : i \in 1..Len(classes) })
    /\ pc' = "ready"
    /\ call' = [ op |-> "emit", config |-> cfg ]
    /\ UNCHANGED << config, result, classVars, generateVars, wrapperVars, fileVars >>

\* one round of the loop of GodotVariantEmitter.emit: _emit_class(ci, mapper)
EmitClass ==
    /\ pc = "ready"
    /\ Len(emitted) < Len(classes)
    /\ emitted' = Append(emitted, _emit_class(call.config, Self, classes[Len(emitted) + 1]))
    /\ UNCHANGED << mapperVars, classVars, headers, class_map, classes, wrapperVars, fileVars >>

NextGenerate ==
    \/ \E tu \in TranslationUnits : ParseHeader(tu)
    \/ ReturnClasses
    \/ \E cs, ss, es \in BOOLEAN : MakeEmitter(VariantEmitterConfig(cs, ss, es))
    \/ EmitClass

SpecGenerate == InitGenerate /\ [][NextGenerate]_vars

(***************************************************************************)
(* Properties of class collection (specification SpecGenerate)             *)
(***************************************************************************)

\* the class declarations met so far, in header order and, within a
\* header, in the order visit() meets them
RECURSIVE DeclsMet(_)
DeclsMet(hs) == IF Len(hs) = 0 THEN <<>> ELSE Head(hs) \o DeclsMet(Tail(hs))

\* the declarations met so far whose identity is key
DeclsOf(key) ==
    LET Same(d) == ClassKey(d) = key IN SelectSeq(DeclsMet(headers), Same)

\* the methods of the declarations ds one after the other, overload index aside
RECURSIVE MethodsOf(_)
MethodsOf(ds) ==
    IF Len(ds) = 0 THEN <<>>
    ELSE [ j \in 1..Len(Head(ds).methods) |->
             [ Head(ds).methods[j] EXCEPT !.overload_index = NoIndex ] ]
         \o MethodsOf(Tail(ds))

\* the first non-empty header path of the declarations ds, "" when none has one
RECURSIVE FirstHeader(_)
FirstHeader(ds) ==
    IF Len(ds) = 0 THEN ""
    ELSE IF Head(ds).header # "" THEN Head(ds).header ELSE FirstHeader(Tail(ds))

\* cs holds one record per declaration identity met, with the methods of
\* all its declarations in header order and the first non-empty header path
OneRecordPerIdentity(cs) ==
    /\ \A i, j \in 1..Len(cs) : ClassKey(cs[i]) = ClassKey(cs[j]) => i = j
    /\ { ClassKey(cs[i]) : i \in 1..Len(cs) }
         = { ClassKey(DeclsMet(headers)[i]) : i \in 1..Len(DeclsMet(headers)) }
    /\ \A i \in 1..Len(cs) :
          \A ds \in { DeclsOf(ClassKey(cs[i])) } :
             /\ MethodsOf(<<cs[i]>>) = MethodsOf(ds)
             /\ cs[i].header = FirstHeader(ds)

MergedIndices(key) == _assign_overload_indices(MethodsOf(DeclsOf(key)))

\* every method _emit_class lowered carries the overload index, and the
\* exposed name, of the fully merged list; nothing is emitted before the
\* classes are returned, and the returned classes carry those indices
LoweredOnMergedList ==
    /\ emitted # <<>> => classes # None /\ pc = "ready"
    /\ classes # None =>
          \A i \in 1..Len(classes) :
             classes[i].methods = MergedIndices(ClassKey(classes[i]))
    /\ \A k \in 1..Len(emitted) :
          \A full \in { MergedIndices(emitted[k].key) } :
             /\ DOMAIN emitted[k].mapped
                  = { j \in 1..Len(full) : full[j].kind \notin {"CONSTRUCTOR", "DESTRUCTOR"} }
             /\ \A j \in DOMAIN emitted[k].mapped :
                   /\ emitted[k].mapped[j].overload_index = full[j].overload_index
                   /\ emitted[k].mapped[j].exposed_name = exposed_name(full[j])

\* a step after the classes are returned leaves the headers parsed and the
\* merged classes as they are, and only such a step lowers a class
MergeThenIndexThenLower ==
    /\ classes # None => UNCHANGED << headers, class_map, classes >>
    /\ emitted' # emitted => classes # None /\ UNCHANGED classes
    /\ classes' # classes =>
          /\ headers' = headers
          /\ \A i \in 1..Len(class_map') :
                class_map'[i].methods = MergedIndices(ClassKey(class_map'[i]))

\* C22: in a generation run the merge of a class's methods across the
\* translation units is over before its overload indices are computed for
\* the last time, and that is over before any of its methods is lowered or
\* emitted: every method is lowered with the index disambiguation assigns on
\* the fully merged list.
C22_MergeIndexLower == [] LoweredOnMergedList /\ [][MergeThenIndexThenLower]_vars

\* a class met in two translation units is emitted with a method whose
\* overload index exists only on the merged list
C22_Witness ==
    \E k \in 1..Len(emitted) :
       /\ Len(DeclsOf(emitted[k].key)) > 1
       /\ \E j \in DOMAIN emitted[k].mapped : emitted[k].mapped[j].overload_index > 0
       /\ \A d \in 1..Len(DeclsOf(emitted[k].key)) :
             \A ms \in { _assign_overload_indices(DeclsOf(emitted[k].key)[d].methods) } :
                \A j \in 1..Len(ms) : ms[j].overload_index = NoIndex

(***************************************************************************)
(* Properties of the variant emitter (specification SpecGenerate)          *)
(***************************************************************************)

\* the supported lowerings of the methods of the k-th class that are
\* neither constructors nor destructors, static or not, in declaration order
SupportedOf(k, static) ==
    LET ms == classes[k].methods
        Kept(j) == /\ ms[j].kind \notin {"CONSTRUCTOR", "DESTRUCTOR"}
                   /\ (ms[j].kind = "STATIC") = static
                   /\ emitted[k].mapped[j].supported
        kept == SelectSeq([ j \in 1..Len(ms) |-> j ], Kept)
    IN  [ i \in 1..Len(kept) |-> emitted[k].mapped[kept[i]] ]

\* the k-th class has a method that is neither constructor nor destructor
\* and whose lowering is unsupported
HasRejection(k) ==
    \E j \in DOMAIN emitted[k].mapped : ~emitted[k].mapped[j].supported

\* C23 as stated: an unsupported method is the only thing dropped; the class
\* is emitted, and its emitted instance and static methods are exactly its
\* supported methods that are neither constructors nor destructors, in
\* declaration order.
C23_RejectionsLocal ==
    \A k \in 1..Len(emitted) :
       /\ emitted[k].written
       /\ emitted[k].mapped_instance = SupportedOf(k, FALSE)
       /\ emitted[k].mapped_static = SupportedOf(k, TRUE)

\* C23 as the emitter does it: the emitted instance methods are exactly
\* the supported non-static ones in declaration order; the static ones are
\* the supported static ones when emit_static_methods is set and none
\* otherwise; the class is emitted unless emit_empty_classes is unset and
\* it has no emitted method and no construct wrapper.  With
\* emit_static_methods and emit_empty_classes set (the defaults) the
\* statement above holds.
C23_RejectionsLocalPerConfig ==
    \A k \in 1..Len(emitted) :
       /\ emitted[k].mapped_instance = SupportedOf(k, FALSE)
       /\ emitted[k].mapped_static
            = IF call.config.emit_static_methods THEN SupportedOf(k, TRUE) ELSE <<>>
       /\ emitted[k].written
            = \/ call.config.emit_empty_classes
              \/ Len(emitted[k].mapped_instance) > 0
              \/ Len(emitted[k].mapped_static) > 0
              \/ Len(emitted[k].mapped_ctors) > 0
       /\ call.config.emit_static_methods /\ call.config.emit_empty_classes =>
             /\ emitted[k].written
             /\ emitted[k].mapped_static = SupportedOf(k, TRUE)

\* a class with an unsupported method is emitted, under the default
\* configuration, with the supported methods it has beside it
C23_Witness ==
    /\ call # NoCall
    /\ call.config = VariantEmitterConfig(TRUE, TRUE, TRUE)
    /\ \E k \in 1..Len(emitted) :
          /\ HasRejection(k)
          /\ emitted[k].written
          /\ Len(emitted[k].mapped_instance) > 0

\* C26: in the wrapper emitted for a class the construct wrappers of its
\* supported constructors have pairwise distinct exposed names (construct,
\* construct_1, ...), however many constructors there are.
C26_ConstructNamesDistinct ==
    \A k \in 1..Len(emitted) :
       \A a, b \in 1..Len(emitted[k].mapped_ctors) :
          emitted[k].mapped_ctors[a] = emitted[k].mapped_ctors[b] => a = b

\* the line runs a pre-call statement of mm or the native call
RunsCall(mm, line) ==
    \/ Contains(line, "impl->")
    \/ \E k \in 1..Len(build_param_call_data(mm.exposed_params).pre_lines) :
          line = "    " \o build_param_call_data(mm.exposed_params).pre_lines[k]
    \/ \E k \in 1..Len(mm.exposed_return.pre_call_lines) :
          line = "    " \o mm.exposed_return.pre_call_lines[k]

\* mm lowers a method whose return type is const char*
ReturnsCString(mm) ==
    /\ mm.exposed_return.kind = "STRING"
    /\ mm.exposed_return.native_spelling = _strip_cv_and_class_kw("const char *")

\* the wrapper body starts with the impl check, which returns the default
\* value of the return mapping (nothing for void), and the pre-call
\* statements and the native call all come after it
ChecksImplFirst(mm, body) ==
    /\ Len(body) > 3
    /\ body[1] = "    if (!impl) {"
    /\ body[2] = IF mm.exposed_return.kind = "VOID" THEN "        return;"
                 ELSE "        return " \o mm.exposed_return.default_exposed_value \o ";"
    /\ body[3] = "    }"
    /\ \A k \in 1..3 : ~RunsCall(mm, body[k])
    /\ \E k \in 4..Len(body) : Contains(body[k], "impl->")
    /\ ReturnsCString(mm) => body[2] = "        return godot::String();"

MaxObjects == 3

\* a delete that does not look at owns_impl
DeleteWhenHeld(h, p, owns) ==
    IF p # 0
    THEN [ h EXCEPT ![p] = [ @ EXCEPT !.status = "deleted",
                                      !.deletes = IF @ < 2 THEN @ + 1 ELSE @,
                                      !.unowned = @ \/ ~owns ] ]
    ELSE h

\* if (impl && owns_impl) { delete impl; }   on the heap h.  An object keeps
\* the number of times the wrapper deleted it and whether the wrapper
\* deleted it while owns_impl was false.
DeleteIfOwned(h, p, owns) ==
    IF p # 0 /\ owns
    THEN [ h EXCEPT ![p] = [ @ EXCEPT !.status = "deleted",
                                      !.deletes = IF @ < 2 THEN @ + 1 ELSE @,
                                      !.unowned = @ \/ ~owns ] ]
    ELSE h

\* the wrapper's constructor: impl = nullptr; owns_impl = true
InitWrapper ==
    /\ MapperIdle
    /\ ClassIdle
    /\ headers = <<>> /\ class_map = <<>> /\ classes = None /\ emitted = <<>>
    /\ dest = None /\ tmp = 0 /\ calls = <<>>
    /\ impl = 0
    /\ owns_impl = TRUE
    /\ heap = [ o \in 1..MaxObjects |->
                  [ status |-> IF o = 1 THEN "live" ELSE "free", deletes |-> 0,
                    unowned |-> FALSE, constructed |-> FALSE ] ]
    /\ last_call = [ op |-> "constructor" ]

\* bool construct(...): the held object is deleted when owned, then
\* impl = new T(...)
Construct(o) ==
    /\ last_call.op # "destructor"
    /\ heap[o].status = "free"
    /\ heap' = [ DeleteIfOwned(heap, impl, owns_impl) EXCEPT
                   ![o] = [ @ EXCEPT !.status = "live", !.constructed = TRUE ] ]
    /\ impl' = o
    /\ last_call' = [ op |-> "construct", p |-> o ]
    /\ UNCHANGED << owns_impl, mapperVars, classVars, generateVars, fileVars >>

\* void reset()
Reset ==
    /\ last_call.op # "destructor"
    /\ heap' = DeleteIfOwned(heap, impl, owns_impl)
    /\ impl' = 0
    /\ last_call' = [ op |-> "reset" ]
    /\ UNCHANGED << owns_impl, mapperVars, classVars, generateVars, fileVars >>

\* void set_impl(T* p, bool p_take_ownership = false); args is the list of
\* the arguments the caller writes after p
SetImpl(p, args) ==
    /\ last_call.op # "destructor"
    /\ IF p = 0 THEN TRUE ELSE heap[p].status = "live"
    /\ heap' = DeleteIfOwned(heap, impl, owns_impl)
    /\ impl' = p
    /\ owns_impl' = (IF Len(args) = 0 THEN FALSE ELSE args[1])
    /\ last_call' = [ op |-> "set_impl", p |-> p, args |-> args ]
    /\ UNCHANGED << mapperVars, classVars, generateVars, fileVars >>

\* void set_owns_impl(bool p_own)
SetOwnsImpl(p_own) ==
    /\ last_call.op # "destructor"
    /\ owns_impl' = p_own
    /\ last_call' = [ op |-> "set_owns_impl", p_own |-> p_own ]
    /\ UNCHANGED << impl, heap, mapperVars, classVars, generateVars, fileVars >>

\* the wrapper's destructor
Destructor ==
    /\ last_call.op # "destructor"
    /\ heap' = DeleteIfOwned(heap, impl, owns_impl)
    /\ impl' = 0
    /\ last_call' = [ op |-> "destructor" ]
    /\ UNCHANGED << owns_impl, mapperVars, classVars, generateVars, fileVars >>

NextWrapper ==
    \/ \E o \in 1..MaxObjects : Construct(o)
    \/ Reset
    \/ \E p \in 0..MaxObjects, args \in { <<>>, <<TRUE>>, <<FALSE>> } : SetImpl(p, args)
    \/ \E p_own \in BOOLEAN : SetOwnsImpl(p_own)
    \/ Destructor

SpecWrapper == InitWrapper /\ [][NextWrapper]_vars

(***************************************************************************)
(* Properties of the generated wrapper (specification SpecWrapper)         *)
(***************************************************************************)

\* C25: set_impl called without an ownership argument leaves the wrapper
\* non-owning, and whatever the order of construct, reset, set_impl,
\* set_owns_impl and destruction, the wrapper deletes a native object only
\* while owns_impl is true.
C25_NonOwningByDefault ==
    /\ last_call.op = "set_impl" /\ Len(last_call.args) = 0 => ~owns_impl
    /\ \A o \in DOMAIN heap : ~heap[o].unowned

\* the wrapper, which held and owned an object it had constructed, has just
\* been handed the outside object without an ownership argument
C25_Witness ==
    /\ last_call.op = "set_impl"
    /\ Len(last_call.args) = 0
    /\ impl = 1
    /\ heap[1].status = "live"
    /\ \E o \in DOMAIN heap : heap[o].constructed /\ heap[o].deletes = 1

\* C29: an object allocated by a construct wrapper is owned by the wrapper:
\* whatever set_impl, set_owns_impl and reset calls came before, owns_impl
\* is true after construct, and the constructed object is deleted exactly
\* once when the wrapper lets go of it (reset, construct, set_impl or
\* destruction): it is never leaked.
C29_ConstructedIsOwned ==
    /\ last_call.op = "construct" => owns_impl
    /\ \A o \in DOMAIN heap :
          heap[o].constructed /\ impl # o => heap[o].deletes = 1

\* C30: after any sequence of construct, reset, set_impl and set_owns_impl
\* calls impl is null or points to an object the wrapper has not deleted,
\* and the wrapper deletes no object twice.
C30_NoDanglingNoDoubleDelete ==
    /\ impl # 0 => heap[impl].status = "live"
    /\ \A o \in DOMAIN heap : heap[o].deletes <= 1

(***************************************************************************)
(* utils.py : normalize_newlines, atomic_write_text, write_text, called    *)
(* again and again on one destination path                                 *)
(***************************************************************************)

\* a normalize_newlines that knows "\r\n" only
normalize_newlines_crlf(text) == Replace(text, "\r\n", "\n")

\* normalize_newlines
normalize_newlines(text) == Replace(Replace(text, "\r\n", "\n"), "\r", "\n")

\* the texts written, and found in the destination before the first call
Contents == { "a\n", "a\r\n", "b\rc" }

\* most temporary files left lying around
MaxTemps == 2

\* atomic_write_text(path, content, only_if_changed=...) on a directory
\* where the destination holds old (None: no such file) and temps temporary
\* files lie around, when the step fail ("read", "mkstemp", "write", "chmod"
\* or "replace"; "none": no step) raises once reached.  The outcome: the
\* destination, the temporary files, the value returned ("True", "False";
\* None when the call raises), the exception that leaves the call, whether os.replace ran.
atomic_write_text(old, temps, content, only_if_changed, fail) ==
    LET text == normalize_newlines(content)
        Outcome(d, t, ret, raised, replaced) ==
            [ dest |-> d, tmp |-> t, ret |-> ret, raised |-> raised, replaced |-> replaced ]
        \* the finally clause with the temporary file still there:
        \* os.path.samefile(tmp_path, path) stats the destination
        Cleanup(error) ==
            IF old = None
            THEN Outcome(old, temps + 1, None, "FileNotFoundError: samefile", FALSE)
            ELSE Outcome(old, temps, None, error, FALSE)
    IN  IF only_if_changed /\ fail = "read" THEN Outcome(old, temps, None, "read", FALSE)
        ELSE IF only_if_changed /\ old # None /\ normalize_newlines(old) = text
             THEN Outcome(old, temps, "False", None, FALSE)
        ELSE IF fail = "mkstemp" THEN Outcome(old, temps, None, "mkstemp", FALSE)
        ELSE IF fail \in { "write", "chmod", "replace" } THEN Cleanup(fail)
        ELSE Outcome(text, temps, "True", None, TRUE)

\* the destination of a first run or of a later one
InitFile ==
    /\ MapperIdle
    /\ ClassIdle
    /\ headers = <<>> /\ class_map = <<>> /\ classes = None /\ emitted = <<>>
    /\ impl = 0 /\ owns_impl = TRUE /\ heap = <<>> /\ last_call = NoCall
    /\ dest \in Contents \cup { None }
    /\ tmp = 0
    /\ calls = <<>>

\* a call of atomic_write_text.  The call is the last one now; of the one
\* before it, what it was called with and whether it replaced the
\* destination are kept.
AtomicWriteText(content, only_if_changed, fail) ==
    /\ tmp < MaxTemps
    /\ \E out \in { atomic_write_text(dest, tmp, content, only_if_changed, fail) } :
          /\ dest' = out.dest
          /\ tmp' = out.tmp
          /\ calls' = (IF Len(calls) = 0 THEN <<>>
                       ELSE << [ fn |-> calls[Len(calls)].fn,
                                 content |-> calls[Len(calls)].content,
                                 flag |-> calls[Len(calls)].flag,
                                 replaced |-> calls[Len(calls)].replaced ] >>)
                      \o << [ fn |-> "atomic_write_text", content |-> content,
                              flag |-> only_if_changed, fail |-> fail, old |-> dest,
                              temps |-> tmp, ret |-> out.ret, raised |-> out.raised,
                              replaced |-> out.replaced ] >>
    /\ UNCHANGED << mapperVars, classVars, generateVars, wrapperVars >>

\* write_text(path, content, dry_run=...): nothing at all on a dry run,
\* atomic_write_text(path, content) otherwise, whose result is dropped
WriteText(content, dry_run, fail) ==
    /\ tmp < MaxTemps
    /\ dry_run => fail = "none"
    /\ \E out \in { IF dry_run
                    THEN [ dest |-> dest, tmp |-> tmp, raised |-> None, replaced |-> FALSE ]
                    ELSE atomic_write_text(dest, tmp, content, TRUE, fail) } :
          /\ dest' = out.dest
          /\ tmp' = out.tmp
          /\ calls' = (IF Len(calls) = 0 THEN <<>>
                       ELSE << [ fn |-> calls[Len(calls)].fn,
                                 content |-> calls[Len(calls)].content,
                                 flag |-> calls[Len(calls)].flag,
                                 replaced |-> calls[Len(calls)].replaced ] >>)
                      \o << [ fn |-> "write_text", content |-> content,
                              flag |-> dry_run, fail |-> fail, old |-> dest,
                              temps |-> tmp, ret |-> None, raised |-> out.raised,
                              replaced |-> out.replaced ] >>
    /\ UNCHANGED << mapperVars, classVars, generateVars, wrapperVars >>

NextFile ==
    \E content \in Contents, flag \in BOOLEAN,
       fail \in { "none", "read", "mkstemp", "write", "chmod", "replace" } :
       \/ AtomicWriteText(content, flag, fail)
       \/ WriteText(content, flag, fail)

SpecFile == InitFile /\ [][NextFile]_vars

(***************************************************************************)
(* Properties of the file writer (specification SpecFile)                  *)
(***************************************************************************)

\* text with every "\r\n" and every other "\r" turned into "\n"
RECURSIVE UnixNewlines(_)
UnixNewlines(text) ==
    IF Len(text) = 0 THEN ""
    ELSE IF CharAt(text, 1) = "\r"
         THEN "\n" \o UnixNewlines(DropFirst(text, IF Len(text) > 1 /\ CharAt(text, 2) = "\n"
                                                 THEN 2 ELSE 1))
         ELSE CharAt(text, 1) \o UnixNewlines(DropFirst(text, 1))

\* C27: when a step of atomic_write_text before the final replace fails, the
\* destination keeps the content it had (or stays absent), the temporary
\* file of the call is gone, and the error of that step is the one that
\* leaves the call, whether or not the destination existed.
C27_FailureLeavesNothing ==
    \A k \in { Len(calls) } \ { 0 } :
       calls[k].raised # None =>
          /\ dest = calls[k].old
          /\ tmp = calls[k].temps
          /\ calls[k].raised = calls[k].fail

\* C28: with only_if_changed a call of atomic_write_text whose normalized
\* content equals the normalized content of the destination writes nothing
\* and returns False; a call returns True exactly when it replaced the
\* destination; of two successive such calls with the same content at most
\* one writes; write_text on a dry run never writes.
C28_Idempotent ==
    /\ \A k \in { Len(calls) } \ { 0 } :
          /\ calls[k].fn = "atomic_write_text" /\ calls[k].flag /\ calls[k].raised = None
               /\ calls[k].old # None
               /\ UnixNewlines(calls[k].old) = UnixNewlines(calls[k].content)
             => calls[k].ret = "False" /\ ~calls[k].replaced
          /\ calls[k].fn = "atomic_write_text" =>
                (calls[k].ret = "True") = calls[k].replaced
          /\ calls[k].fn = "write_text" /\ calls[k].flag => ~calls[k].replaced
          /\ calls[k].replaced => dest = UnixNewlines(calls[k].content)
          /\ ~calls[k].replaced => dest = calls[k].old
    /\ ( /\ Len(calls) = 2
         /\ (\A k \in 1..2 : calls[k].fn = "atomic_write_text" /\ calls[k].flag)
         /\ UnixNewlines(calls[1].content) = UnixNewlines(calls[2].content) )
       => ~(calls[1].replaced /\ calls[2].replaced)

\* the second of two calls with the same text, newlines aside, found the
\* destination written by the first and skipped the write
C28_Witness ==
    /\ Len(calls) = 2
    /\ (\A k \in 1..2 : calls[k].fn = "atomic_write_text" /\ calls[k].flag)
    /\ calls[1].content # calls[2].content
    /\ calls[1].replaced
    /\ calls[2].ret = "False"
    /\ calls[2].old = dest

====
